---- MODULE Spec2Model ----
(***************************************************************************)
(* State-machine model of the WLWV school calendar REST API.               *)
(*                                                                         *)
(* The repository holds four revisions of one service:                     *)
(*   rev 1  src/unnamed/part_000        single-table API, version 1.0.0    *)
(*   rev 2  src/server.js 1525-2253     single-table API, version 2.1.0    *)
(*   rev 3  src/index.html              single-table API, version 2.4.0    *)
(*   rev 4  src/server.js 1-1524        multi-school API with admin gate   *)
(* Every handler is one action.  A request's inputs are drawn from small   *)
(* sets; `fail` names the statement of the handler that the store fails    *)
(* (0: none).  Dates are day numbers of June 2025; a stored DATE is the    *)
(* day number, a request's date is a record [fmt, day] that the handler    *)
(* has to convert.  Columns no handler reads back (id of the upsert        *)
(* tables, created_at) are left out; tables without a serial key that a    *)
(* handler reads are sequences of rows in insertion order, so that a       *)
(* duplicate row is representable.                                         *)
(*                                                                         *)
(* Assumed of the environment: Node's Date.now() and PostgreSQL's NOW()    *)
(* read one clock in one time zone; generateSessionId never returns the    *)
(* same value twice; a ROLLBACK that is sent succeeds; requests are        *)
(* handled one at a time, except those to PUT /api/home/buttons/:school,   *)
(* whose statements interleave.                                            *)
(***************************************************************************)
EXTENDS Integers, Sequences, FiniteSets, TLC

(***************************************************************************)
(* Bounds of the exploration.                                              *)
(***************************************************************************)
\* successful logins of one behaviour
MaxLogins == 2
\* the clock stops here
MaxTime == 12
\* data-changing requests of one behaviour on the keyed tables
MaxWrites == 2
\* data-changing requests of one behaviour on the events tables
MaxEventWrites == 1
\* values the serial of an events table may hand out
MaxEventId == 5
\* pools one behaviour may leave open at the same time
MaxPools == 2
\* PUT home buttons requests of one behaviour
MaxRequests == 2

(***************************************************************************)
(* Program constants.                                                      *)
(***************************************************************************)
\* hours a session lives: Date.now() + 8 * 60 * 60 * 1000
SessionHours == 8
\* the clock of the model advances in steps of this many hours
TickHours == 4

Null == "<null>"
NoToken == "<no header>"
AdminPassword == "Lions"
Schools == {"wlhs", "wvhs"}
SchoolInputs == {"wlhs", "wvhs", "zzz"}
SessionIds == <<"s1", "s2", "s3", "s4">>
PasswordInputs == {AdminPassword, "lions", Null}
allowedTypes ==
    {"finals", "grading-day", "access", "early-release", "holiday", "staff-development"}

Ymd(d) == [fmt |-> "ymd", day |-> d]
BadDate == [fmt |-> "bad", day |-> 0]
DateInputs == {Ymd(16), BadDate}
LabelInputs == {"B", "C", "", Null}
TypeInputs == {"holiday", "normal", "party"}
DescInputs == {Null, "note"}
SettingsInputs == {Null, "{styles:1}"}

\* a request slot that no request has used
Idle == [pc |-> "idle", school |-> "<null>", title |-> "<null>", passed |-> FALSE,
         status |-> 0]
NoRequests == [i \in 1..MaxRequests |-> Idle]

VARIABLES
    now,       \* wall clock, hours
    db,        \* rev 4: the store, one field per table
    sidCount,  \* number of session ids generated so far
    issuedAt,  \* history: issued session id -> time of the login that issued it
    revoked,   \* history: issued session ids whose logout has completed
    writes,    \* number of data-changing requests made so far
    last,      \* the last request and its response
    rev,       \* the revision of the service that is running
    pool,      \* revs 1-3: connection string of the module's pool, Null without one
    dbEnv,     \* rev 3: process.env.DATABASE_URL, Null when unset
    sdb,       \* revs 1-3: the store, one field per table
    poolEnded, \* revs 1-3: pool.ended of the module's pool
    livePools, \* revs 1-3: number of pools created and not ended
    inflight   \* rev 4: the PUT home buttons requests and where each of them stands

vars == <<now, db, sidCount, issuedAt, revoked, writes, last, rev, pool, dbEnv, sdb,
          poolEnded, livePools, inflight>>

\* the state of the single-table revisions, and that of the multi-school revision;
\* each with the requests in flight, which only PUT home buttons changes
single == <<rev, pool, dbEnv, sdb, poolEnded, livePools, inflight>>
multi == <<now, db, sidCount, issuedAt, revoked, inflight>>

(***************************************************************************)
(* Relational helpers.  A table is a sequence of rows in insertion order.  *)
(***************************************************************************)
RECURSIVE SelectRows(_, _)
\* the rows of table t that are in the set keep, order kept
SelectRows(t, keep) ==
    IF t = <<>> THEN <<>>
    ELSE IF Head(t) \in keep THEN <<Head(t)>> \o SelectRows(Tail(t), keep)
    ELSE SelectRows(Tail(t), keep)

Rows(t) == {t[i] : i \in 1..Len(t)}

\* a DELETE that removes nothing
DeleteRows_Nothing(t, gone) == t

\* DELETE FROM t WHERE <the row is in gone>
DeleteRows(t, gone) == SelectRows(t, Rows(t) \ gone)

\* a request's date as PostgreSQL reads a DATE parameter
PgDateOk(d) == d.fmt # "bad"
PgDate(d) == d.day

\* the data tables of rev 4, the session table left out
DataOf(d) == [f \in (DOMAIN d) \ {"admin_sessions"} |-> d[f]]

(***************************************************************************)
(* The response of the request just handled.  args holds the inputs the    *)
(* handler had read when it answered.                                      *)
(***************************************************************************)
Respond(op, args, status, out) ==
    last' = [op |-> op, args |-> args, status |-> status, out |-> out]

NoOut == [none |-> TRUE]

(***************************************************************************)
(* rev 4: sessions and the admin gate.                                     *)
(***************************************************************************)
validateSchool(school) == school = "wlhs" \/ school = "wvhs"

\* the n-th identifier a login hands out; two calls of generateSessionId never
\* agree (Math.random() followed by the millisecond clock)
generateSessionId(n) == SessionIds[n]

\* the tokens a client can present: none, empty, a guess, or one it was given
Tokens == {NoToken, "", "bogus"} \cup {generateSessionId(i) : i \in 1..sidCount}

\* the lookup with the comparison relaxed to >=
SessionRows_AtExpiry(sessionId) ==
    {r \in db.admin_sessions : r.session_id = sessionId /\ r.expires_at >= now}

\* the lookup without the comparison of expires_at
SessionRows_AnyAge(sessionId) ==
    {r \in db.admin_sessions : r.session_id = sessionId}

\* SELECT * FROM admin_sessions WHERE session_id = $1 AND expires_at > NOW()
SessionRows(sessionId) ==
    {r \in db.admin_sessions : r.session_id = sessionId /\ r.expires_at > now}

\* requireAdmin hands the request to the wrapped handler: next()
PassedOn == 100

\* the gate without its lookup: any non-empty header passes
requireAdmin_NoLookup(sessionId, lookupFails) ==
    IF sessionId = NoToken \/ sessionId = "" THEN 401 ELSE PassedOn

\* the gate with a catch block that calls next()
requireAdmin_FailOpen(sessionId, lookupFails) ==
    IF sessionId = NoToken \/ sessionId = "" THEN 401
    ELSE IF lookupFails THEN PassedOn
    ELSE IF SessionRows(sessionId) = {} THEN 401
    ELSE PassedOn

\* the status requireAdmin answers with, or PassedOn; lookupFails: pool.query throws
requireAdmin(sessionId, lookupFails) ==
    IF sessionId = NoToken \/ sessionId = "" THEN 401
    ELSE IF lookupFails THEN 500
    ELSE IF SessionRows(sessionId) = {} THEN 401
    ELSE PassedOn

\* what is known of a request the gate answered itself
Denied(sessionId, lookupFails) ==
    [tok |-> sessionId, denied |-> TRUE, lookupFails |-> lookupFails]

\* a route behind requireAdmin: the handler runs only when the gate passes on
Gated(op, Handler(_)) ==
    /\ rev = 4
    /\ \E sessionId \in Tokens, lookupFails \in BOOLEAN :
        LET gate == requireAdmin(sessionId, lookupFails) IN
        IF gate # PassedOn
        THEN /\ Respond(op, Denied(sessionId, gate = 500), gate, NoOut)
             /\ UNCHANGED <<single, now, db, sidCount, issuedAt, revoked, writes>>
        ELSE Handler(sessionId)

\* the sweep without its WHERE clause
SweepExpired_All(rows) == {}

\* DELETE FROM admin_sessions WHERE expires_at < NOW()
SweepExpired(rows) == {r \in rows : ~(r.expires_at < now)}

\* the expiry computed from the clock's tick instead of the session length
ExpiresAt_OneTick(t) == t + TickHours

\* new Date(Date.now() + 8 * 60 * 60 * 1000)
ExpiresAt(t) == t + SessionHours

\* POST /api/admin/login; fail = 1: the sweep throws, fail = 2: the INSERT throws
AdminLogin ==
    /\ rev = 4
    /\ \E password \in PasswordInputs :
        IF password # AdminPassword
        THEN /\ Respond("login", [password |-> password], 401, NoOut)
             /\ UNCHANGED <<single, now, db, sidCount, issuedAt, revoked, writes>>
        ELSE \E fail \in 0..2 :
            LET args == [password |-> password, fail |-> fail]
                sessionId == generateSessionId(sidCount + 1)
                expiresAt == ExpiresAt(now)
                swept == SweepExpired(db.admin_sessions)
            IN  IF fail = 1
                THEN /\ Respond("login", args, 500, NoOut)
                     /\ UNCHANGED <<single, now, db, sidCount, issuedAt, revoked, writes>>
                ELSE IF fail = 2
                THEN /\ db' = [db EXCEPT !.admin_sessions = swept]
                     /\ Respond("login", args, 500, NoOut)
                     /\ UNCHANGED <<single, now, sidCount, issuedAt, revoked, writes>>
                ELSE /\ sidCount < MaxLogins
                     /\ sidCount' = sidCount + 1
                     /\ db' = [db EXCEPT !.admin_sessions = swept \cup
                             {[session_id |-> sessionId, expires_at |-> expiresAt]}]
                     /\ issuedAt' = (sessionId :> now) @@ issuedAt
                     /\ Respond("login", args, 200,
                            [sessionId |-> sessionId, expiresAt |-> expiresAt])
                     /\ UNCHANGED <<single, now, revoked, writes>>

\* the DELETE without its WHERE clause
DeleteSession_All(rows, sessionId) == {}

\* DELETE FROM admin_sessions WHERE session_id = $1
DeleteSession(rows, sessionId) == {r \in rows : r.session_id # sessionId}

\* POST /api/admin/logout; deleteFails: the DELETE throws
AdminLogout ==
    /\ rev = 4
    /\ \E sessionId \in Tokens :
        IF sessionId = NoToken \/ sessionId = ""
        THEN /\ Respond("logout", [tok |-> sessionId], 200, NoOut)
             /\ UNCHANGED <<single, now, db, sidCount, issuedAt, revoked, writes>>
        ELSE \E deleteFails \in BOOLEAN :
            IF deleteFails
            THEN /\ Respond("logout", [tok |-> sessionId], 500, NoOut)
                 /\ UNCHANGED <<single, now, db, sidCount, issuedAt, revoked, writes>>
            ELSE /\ db' = [db EXCEPT !.admin_sessions = DeleteSession(@, sessionId)]
                 /\ revoked' = revoked \cup ({sessionId} \cap DOMAIN issuedAt)
                 /\ Respond("logout", [tok |-> sessionId], 200, NoOut)
                 /\ UNCHANGED <<single, now, sidCount, issuedAt, writes>>

\* POST /api/admin/verify; lookupFails: the SELECT throws
AdminVerify ==
    /\ rev = 4
    /\ \E sessionId \in Tokens, lookupFails \in BOOLEAN :
        /\ IF sessionId = NoToken \/ sessionId = ""
           THEN Respond("verify", [tok |-> sessionId, lookupFails |-> FALSE], 401,
                        [valid |-> FALSE])
           ELSE IF lookupFails
           THEN Respond("verify", [tok |-> sessionId, lookupFails |-> TRUE], 500,
                        [valid |-> FALSE])
           ELSE Respond("verify", [tok |-> sessionId, lookupFails |-> FALSE], 200,
                        [valid |-> SessionRows(sessionId) # {}])
        /\ UNCHANGED <<single, now, db, sidCount, issuedAt, revoked, writes>>

\* time passes
Tick ==
    /\ rev = 4
    /\ now + TickHours <= MaxTime
    /\ now' = now + TickHours
    /\ UNCHANGED <<single, db, sidCount, issuedAt, revoked, writes, last>>

(***************************************************************************)
(* rev 4: the date-keyed and school-keyed tables.                          *)
(***************************************************************************)
\* a handler that answers without touching the store's rows
Same == UNCHANGED <<single, now, db, sidCount, issuedAt, revoked, writes>>

\* a handler whose statements leave the store as newdb
Stores(newdb) ==
    /\ writes < MaxWrites
    /\ writes' = writes + 1
    /\ db' = newdb
    /\ UNCHANGED <<single, now, sidCount, issuedAt, revoked>>

\* a handler whose statements leave the events tables as in newdb
StoresEvents(newdb) ==
    /\ writes < MaxEventWrites
    /\ writes' = writes + 1
    /\ db' = newdb
    /\ UNCHANGED <<single, now, sidCount, issuedAt, revoked>>

\* the INSERT without its ON CONFLICT clause, on a table without the key
Upsert_AlwaysInsert(t, key, row) == Append(t, row)

\* INSERT INTO t VALUES (row) ON CONFLICT (key) DO UPDATE SET <the other columns>
Upsert(t, key, row) ==
    IF \E i \in 1..Len(t) : t[i][key] = row[key]
    THEN [i \in 1..Len(t) |-> IF t[i][key] = row[key] THEN row ELSE t[i]]
    ELSE Append(t, row)

\* DELETE FROM t WHERE date = $1 RETURNING *
RowsOfDate(t, d) == {r \in Rows(t) : r.date = d}

RECURSIVE InsertByDate(_, _)
InsertByDate(sorted, row) ==
    IF sorted = <<>> THEN <<row>>
    ELSE IF row.date < Head(sorted).date THEN <<row>> \o sorted
    ELSE <<Head(sorted)>> \o InsertByDate(Tail(sorted), row)

RECURSIVE OrderByDate(_)
\* SELECT * FROM t ORDER BY date
OrderByDate(t) ==
    IF t = <<>> THEN <<>> ELSE InsertByDate(OrderByDate(Tail(t)), Head(t))

\* GET /api/:school/day-labels
GetDayLabels(d, school) == OrderByDate(d.day_labels[school])

\* GET /api/:school/special-days
GetSpecialDays(d, school) == OrderByDate(d.special_days[school])

\* the store rejects the handler's statement: pool.query throws
QueryFailed(tok, school) == [tok |-> tok, school |-> school, failed |-> "query"]

\* PUT /api/:school/day-labels/:date
PutDayLabelHandler(sessionId) ==
    \E school \in SchoolInputs :
        IF ~validateSchool(school)
        THEN Respond("PUT day-labels", [tok |-> sessionId, school |-> school], 400, NoOut) /\ Same
        ELSE \E queryFails \in BOOLEAN :
            IF queryFails
            THEN Respond("PUT day-labels", QueryFailed(sessionId, school), 500, NoOut) /\ Same
            ELSE \E date \in DateInputs, label \in LabelInputs :
                LET args == [tok |-> sessionId, school |-> school, date |-> date, label |-> label]
                    row == [date |-> PgDate(date), label |-> label]
                IN  IF ~PgDateOk(date) \/ label = Null
                    THEN Respond("PUT day-labels", args, 500, NoOut) /\ Same
                    ELSE /\ Stores([db EXCEPT !.day_labels[school] =
                                       Upsert(@, "date", row)])
                         /\ Respond("PUT day-labels", args, 200, row)

PutDayLabel == Gated("PUT day-labels", PutDayLabelHandler)

\* DELETE /api/:school/day-labels/:date
DeleteDayLabelHandler(sessionId) ==
    \E school \in SchoolInputs :
        IF ~validateSchool(school)
        THEN Respond("DELETE day-labels", [tok |-> sessionId, school |-> school], 400, NoOut) /\ Same
        ELSE \E queryFails \in BOOLEAN :
            IF queryFails
            THEN Respond("DELETE day-labels", QueryFailed(sessionId, school), 500, NoOut) /\ Same
            ELSE \E date \in DateInputs :
                LET args == [tok |-> sessionId, school |-> school, date |-> date]
                    gone == RowsOfDate(db.day_labels[school], PgDate(date))
                IN  IF ~PgDateOk(date)
                    THEN Respond("DELETE day-labels", args, 500, NoOut) /\ Same
                    ELSE IF gone = {}
                    THEN Respond("DELETE day-labels", args, 404, NoOut) /\ Same
                    ELSE /\ Stores([db EXCEPT !.day_labels[school] =
                                       DeleteRows(@, gone)])
                         /\ Respond("DELETE day-labels", args, 200, NoOut)

DeleteDayLabel == Gated("DELETE day-labels", DeleteDayLabelHandler)

\* description || ""
OrEmpty(v) == IF v = Null \/ v = "" THEN "" ELSE v

\* PUT /api/:school/special-days/:date
PutSpecialDayHandler(sessionId) ==
    \E school \in SchoolInputs :
        IF ~validateSchool(school)
        THEN Respond("PUT special-days", [tok |-> sessionId, school |-> school], 400, NoOut) /\ Same
        ELSE \E date \in DateInputs, type \in TypeInputs, description \in DescInputs :
            LET args == [tok |-> sessionId, school |-> school, date |-> date, type |-> type,
                         description |-> description]
                gone == RowsOfDate(db.special_days[school], PgDate(date))
                row == [date |-> PgDate(date), type |-> type,
                        description |-> OrEmpty(description)]
            IN  IF type # "normal" /\ type \notin allowedTypes
                THEN /\ Respond("PUT special-days",
                                [tok |-> sessionId, school |-> school, type |-> type], 400, NoOut)
                     /\ Same
                ELSE \E queryFails \in BOOLEAN :
                    IF queryFails
                    THEN /\ Respond("PUT special-days", QueryFailed(sessionId, school), 500, NoOut)
                         /\ Same
                    ELSE IF ~PgDateOk(date)
                    THEN /\ Respond("PUT special-days",
                                    [tok |-> sessionId, school |-> school, date |-> date], 500, NoOut)
                         /\ Same
                    ELSE IF type = "normal"
                    THEN /\ Stores([db EXCEPT !.special_days[school] =
                                       DeleteRows(@, gone)])
                         /\ Respond("PUT special-days",
                                    [tok |-> sessionId, school |-> school, date |-> date, type |-> type],
                                    200, [deleted |-> gone])
                    ELSE /\ Stores([db EXCEPT !.special_days[school] =
                                       Upsert(@, "date", row)])
                         /\ Respond("PUT special-days", args, 200, row)

PutSpecialDay == Gated("PUT special-days", PutSpecialDayHandler)

\* PUT /api/:school/settings; settings = Null: the body has no settings field
PutSettingsHandler(sessionId) ==
    \E school \in SchoolInputs :
        IF ~validateSchool(school)
        THEN Respond("PUT settings", [tok |-> sessionId, school |-> school], 400, NoOut) /\ Same
        ELSE \E queryFails \in BOOLEAN :
            IF queryFails
            THEN Respond("PUT settings", QueryFailed(sessionId, school), 500, NoOut) /\ Same
            ELSE \E settings \in SettingsInputs :
                LET args == [tok |-> sessionId, school |-> school, settings |-> settings]
                    row == [tok |-> sessionId, school |-> school, settings |-> settings]
                IN  IF settings = Null
                    THEN Respond("PUT settings", args, 500, NoOut) /\ Same
                    ELSE /\ Stores([db EXCEPT !.school_settings =
                                       Upsert(@, "school", row)])
                         /\ Respond("PUT settings", args, 200, row)

PutSettings == Gated("PUT settings", PutSettingsHandler)

\* value || fallback
OrDefault(v, fallback) == IF v = Null \/ v = "" THEN fallback ELSE v

BannerInputs ==
    {[message |-> Null, is_active |-> Null, text_size |-> Null,
      text_color |-> Null, background_color |-> Null],
     [message |-> "Snow day", is_active |-> "false", text_size |-> "20px",
      text_color |-> "#000000", background_color |-> "#00ff00"]}

\* PUT /api/:school/banner
PutBannerHandler(sessionId) ==
    \E school \in SchoolInputs :
        IF ~validateSchool(school)
        THEN Respond("PUT banner", [tok |-> sessionId, school |-> school], 400, NoOut) /\ Same
        ELSE \E queryFails \in BOOLEAN :
            IF queryFails
            THEN Respond("PUT banner", QueryFailed(sessionId, school), 500, NoOut) /\ Same
            ELSE \E body \in BannerInputs :
                LET args == [tok |-> sessionId, school |-> school, body |-> body]
                    row == [tok |-> sessionId, school |-> school,
                            message |-> OrEmpty(body.message),
                            is_active |-> body.is_active # "false",
                            text_size |-> OrDefault(body.text_size, "16px"),
                            text_color |-> OrDefault(body.text_color, "#ffffff"),
                            background_color |->
                                OrDefault(body.background_color, "#ff6b6b")]
                IN  /\ Stores([db EXCEPT !.school_banners = Upsert(@, "school", row)])
                    /\ Respond("PUT banner", args, 200, row)

PutBanner == Gated("PUT banner", PutBannerHandler)

(***************************************************************************)
(* rev 4: custom links, one table for both schools.  The style columns     *)
(* (order_index, text_size, text_color, background_color) are left out.    *)
(***************************************************************************)
PositionInputs == {"left", "top"}
LinkTitleInputs == {Null, "Library", "Lunch"}
LinkIdInputs == {1, 2}
LinkUrl == "https://example.com/library"

\* POST /api/:school/links
PostLinkHandler(sessionId) ==
    \E school \in SchoolInputs :
        IF ~validateSchool(school)
        THEN Respond("POST links", [tok |-> sessionId, school |-> school], 400, NoOut) /\ Same
        ELSE \E position \in PositionInputs, title \in LinkTitleInputs \ {"Lunch"} :
            LET args == [tok |-> sessionId, school |-> school, position |-> position,
                         title |-> title]
                id == db.links_seq + 1
                row == [id |-> id, school |-> school, position |-> position,
                        title |-> title, url |-> LinkUrl]
            IN  IF position \notin {"left", "right"}
                THEN Respond("POST links", args, 400, NoOut) /\ Same
                ELSE IF title = Null
                THEN /\ Stores([db EXCEPT !.links_seq = id])
                     /\ Respond("POST links", args, 500, NoOut)
                ELSE /\ Stores([db EXCEPT !.links_seq = id,
                                          !.custom_links = @ \cup {row}])
                     /\ Respond("POST links", args, 201, row)

PostLink == Gated("POST links", PostLinkHandler)

\* the WHERE clause without its test of the school
LinksOf_AnySchool(d, school, id) == {r \in d.custom_links : r.id = id}

\* .. WHERE id = $1 AND school = $2: the rows the statement matches
LinksOf(d, school, id) == {r \in d.custom_links : r.id = id /\ r.school = school}

\* PUT /api/:school/links/:id
PutLinkHandler(sessionId) ==
    \E school \in SchoolInputs :
        IF ~validateSchool(school)
        THEN Respond("PUT links", [tok |-> sessionId, school |-> school], 400, NoOut) /\ Same
        ELSE \E id \in LinkIdInputs, title \in LinkTitleInputs, queryFails \in BOOLEAN :
            LET args == [tok |-> sessionId, school |-> school, id |-> id, title |-> title]
                old == LinksOf(db, school, id)
                new == {[r EXCEPT !.title = title, !.url = LinkUrl] : r \in old}
            IN  IF queryFails
                THEN Respond("PUT links", QueryFailed(sessionId, school), 500, NoOut) /\ Same
                ELSE IF old = {}
                THEN Respond("PUT links", args, 404, NoOut) /\ Same
                ELSE IF title = Null
                THEN Respond("PUT links", args, 500, NoOut) /\ Same
                ELSE IF new = old
                THEN Respond("PUT links", args, 200, new) /\ Same
                ELSE /\ Stores([db EXCEPT !.custom_links = (@ \ old) \cup new])
                     /\ Respond("PUT links", args, 200, new)

PutLink == Gated("PUT links", PutLinkHandler)

\* DELETE /api/:school/links/:id
DeleteLinkHandler(sessionId) ==
    \E school \in SchoolInputs :
        IF ~validateSchool(school)
        THEN Respond("DELETE links", [tok |-> sessionId, school |-> school], 400, NoOut) /\ Same
        ELSE \E id \in LinkIdInputs, queryFails \in BOOLEAN :
            LET args == [tok |-> sessionId, school |-> school, id |-> id]
                old == LinksOf(db, school, id)
            IN  IF queryFails
                THEN Respond("DELETE links", QueryFailed(sessionId, school), 500, NoOut) /\ Same
                ELSE IF old = {}
                THEN Respond("DELETE links", args, 404, NoOut) /\ Same
                ELSE /\ Stores([db EXCEPT !.custom_links = @ \ old])
                     /\ Respond("DELETE links", args, 200, NoOut)

DeleteLink == Gated("DELETE links", DeleteLinkHandler)

(***************************************************************************)
(* rev 4: events and their curriculum rows, written in one transaction.    *)
(***************************************************************************)
\* no response is ever sent (a rejection outside the handler's try block)
NoResponse == 0

Entry(grade, links, description) ==
    [grade |-> grade, links |-> links, description |-> description, isNull |-> FALSE]
\* a lifeCurriculum entry whose value is null
NullEntry(grade) ==
    [grade |-> grade, links |-> Null, description |-> Null, isNull |-> TRUE]

\* lifeCurriculum maps, as Object.entries lists them: integer keys ascending,
\* other keys ("12th", "9th": parseInt reads 12 and 9) in the order of the body
CurriculumInputs ==
    {<<Entry(9, "http://x", Null), Entry(10, "", Null), Entry(11, Null, "y")>>,
     <<Entry(9, "http://x", Null), Entry(13, "http://z", Null)>>,
     <<Entry(9, Null, "z"), NullEntry(12)>>,
     <<Entry(12, "http://x", Null), Entry(9, Null, "y")>>}

EventBody(title, date, lifeCurriculum) ==
    [title |-> title, date |-> date, time |-> Null, department |-> "life",
     description |-> "about", lifeCurriculum |-> lifeCurriculum]

EventBodies ==
    {EventBody("Assembly", Ymd(16), L) : L \in CurriculumInputs}
    \cup {EventBody(Null, Ymd(16), <<Entry(9, "http://x", Null)>>),
          EventBody("Rally", BadDate, <<>>)}

EventIdInputs == {1, 4}

\* the statements of the two transactions that the store can fail:
\* 1 BEGIN, 2 the event's INSERT or UPDATE, 3 DELETE of the old curriculum rows
\* (update only), 4 and 5 the first and second curriculum INSERT, 6 COMMIT,
\* 7 the SELECT that reads the event back
PostFailPoints == {0, 1, 2, 4, 5, 6, 7}
PutFailPoints == 0..7

\* v || null
OrNull(v) == IF v = Null \/ v = "" THEN Null ELSE v

\* the loop without its test of the entry's fields
HasContent_Always(e) == TRUE

\* curriculum.links || curriculum.description
HasContent(e) == OrNull(e.links) # Null \/ OrNull(e.description) # Null

RECURSIVE InsertCurriculum(_, _, _, _, _)
\* the for-loop over Object.entries(lifeCurriculum): rows is the curriculum table,
\* n the number of the next INSERT; [ok, rows] when the loop ends or throws
InsertCurriculum(rows, eventId, entries, n, fail) ==
    IF entries = <<>> THEN [ok |-> TRUE, rows |-> rows]
    ELSE LET e == Head(entries) IN
         IF e.isNull THEN [ok |-> FALSE, rows |-> rows]
         ELSE IF ~HasContent(e)
         THEN InsertCurriculum(rows, eventId, Tail(entries), n, fail)
         ELSE IF fail = n \/ e.grade < 9 \/ e.grade > 12
         THEN [ok |-> FALSE, rows |-> rows]
         ELSE InsertCurriculum(
                  Append(rows, [event_id |-> eventId, grade |-> e.grade,
                                links |-> OrNull(e.links),
                                description |-> OrNull(e.description)]),
                  eventId, Tail(entries), n + 1, fail)

\* the catch block without its ROLLBACK: the statements that ran stay
Rollback_KeepsWork(before, work) == work

\* ROLLBACK: the rows are those before BEGIN; a serial keeps what it handed out
Rollback(before, work) == [before EXCEPT !.events_seq = work.events_seq]

\* json_agg(json_build_object('grade', ..)) FILTER (WHERE lc.id IS NOT NULL)
CurriculumOf(d, school, id) ==
    LET mine == SelectRows(d.life_curriculum[school],
                           {r \in Rows(d.life_curriculum[school]) : r.event_id = id})
    IN  [i \in 1..Len(mine) |-> [grade |-> mine[i].grade, links |-> mine[i].links,
                                  description |-> mine[i].description]]

\* SELECT e.*, COALESCE(json_agg(..), '[]') FROM events e LEFT JOIN life_curriculum
\* WHERE e.id = $1 GROUP BY e.id
CompleteEvent(d, school, id) ==
    {[event |-> e, life_curriculum |-> CurriculumOf(d, school, id)] :
        e \in {x \in d.events[school] : x.id = id}}

\* the transaction's outcome: the handler's status and the store it leaves
Ended(op, args, status, newdb, out) ==
    /\ Respond(op, args, status, out)
    /\ IF newdb = db THEN Same ELSE StoresEvents(newdb)

\* POST /api/:school/events
PostEventHandler(sessionId) ==
    \E connectFails \in BOOLEAN :
        IF connectFails
        THEN Respond("POST events", [tok |-> sessionId, connected |-> FALSE], NoResponse, NoOut) /\ Same
        ELSE \E school \in SchoolInputs :
            IF ~validateSchool(school)
            THEN /\ Respond("POST events", [tok |-> sessionId, school |-> school], 400, NoOut)
                 /\ Same
            ELSE \E body \in EventBodies, fail \in PostFailPoints :
                LET args == [tok |-> sessionId, school |-> school, body |-> body, fail |-> fail]
                    eventId == db.events_seq[school] + 1
                    event == [id |-> eventId, title |-> body.title,
                              date |-> PgDate(body.date), time |-> OrNull(body.time),
                              department |-> body.department,
                              description |-> body.description]
                    began == fail # 1
                    bound == began /\ fail # 2 /\ PgDateOk(body.date)
                    inserted == bound /\ body.title # Null /\ body.department # Null
                    t1 == IF bound
                          THEN [db EXCEPT !.events_seq[school] = eventId,
                                          !.events[school] =
                                              IF inserted THEN @ \cup {event} ELSE @]
                          ELSE db
                    cur == InsertCurriculum(t1.life_curriculum[school], eventId,
                                            body.lifeCurriculum, 4, fail)
                    t2 == IF inserted
                          THEN [t1 EXCEPT !.life_curriculum[school] = cur.rows]
                          ELSE t1
                    committed == inserted /\ cur.ok /\ fail # 6
                IN  /\ eventId <= MaxEventId
                    /\ IF ~committed
                       THEN Ended("POST events", args, 500, Rollback(db, t2), NoOut)
                       ELSE IF fail = 7
                       THEN Ended("POST events", args, 500, t2, NoOut)
                       ELSE Ended("POST events", args, 201, t2,
                                  CompleteEvent(t2, school, eventId))

PostEvent == Gated("POST events", PostEventHandler)

\* PUT /api/:school/events/:id
PutEventHandler(sessionId) ==
    \E connectFails \in BOOLEAN :
        IF connectFails
        THEN Respond("PUT events", [tok |-> sessionId, connected |-> FALSE], NoResponse, NoOut) /\ Same
        ELSE \E school \in SchoolInputs :
            IF ~validateSchool(school)
            THEN /\ Respond("PUT events", [tok |-> sessionId, school |-> school], 400, NoOut)
                 /\ Same
            ELSE \E id \in EventIdInputs, body \in EventBodies, fail \in PutFailPoints :
                LET args == [tok |-> sessionId, school |-> school, id |-> id,
                             body |-> body, fail |-> fail]
                    old == {e \in db.events[school] : e.id = id}
                    new == {[e EXCEPT !.title = body.title, !.date = PgDate(body.date),
                                      !.time = OrNull(body.time),
                                      !.department = body.department,
                                      !.description = body.description] : e \in old}
                    began == fail # 1
                    updated == /\ began /\ fail # 2 /\ PgDateOk(body.date)
                               /\ (old = {} \/ (body.title # Null /\ body.department # Null))
                    t1 == IF updated
                          THEN [db EXCEPT !.events[school] = (@ \ old) \cup new]
                          ELSE db
                    found == updated /\ old # {}
                    deleted == found /\ fail # 3
                    t2 == IF deleted
                          THEN [t1 EXCEPT !.life_curriculum[school] =
                                   DeleteRows(@, {r \in Rows(@) : r.event_id = id})]
                          ELSE t1
                    cur == InsertCurriculum(t2.life_curriculum[school], id,
                                            body.lifeCurriculum, 4, fail)
                    t3 == IF deleted
                          THEN [t2 EXCEPT !.life_curriculum[school] = cur.rows]
                          ELSE t2
                    committed == deleted /\ cur.ok /\ fail # 6
                IN  IF updated /\ old = {}
                    THEN Ended("PUT events", args, 404, Rollback(db, t1),
                               [sent |-> <<"BEGIN", "UPDATE", "ROLLBACK">>])
                    ELSE IF ~committed
                    THEN Ended("PUT events", args, 500, Rollback(db, t3), NoOut)
                    ELSE IF fail = 7
                    THEN Ended("PUT events", args, 500, t3, NoOut)
                    ELSE Ended("PUT events", args, 200, t3, CompleteEvent(t3, school, id))

PutEvent == Gated("PUT events", PutEventHandler)

\* the DELETE on a curriculum table whose event_id has no ON DELETE CASCADE
DeleteEvent_NoCascade(d, school, id) ==
    [d EXCEPT !.events[school] = {e \in @ : e.id # id}]

\* DELETE FROM events_<school> WHERE id = $1; the curriculum rows go with
\* their event: event_id REFERENCES events_<school>(id) ON DELETE CASCADE
DeleteEventCascade(d, school, id) ==
    [d EXCEPT !.events[school] = {e \in @ : e.id # id},
              !.life_curriculum[school] =
                  DeleteRows(@, {r \in Rows(@) : r.event_id = id})]

\* DELETE /api/:school/events/:id
DeleteEventHandler(sessionId) ==
    \E school \in SchoolInputs :
        IF ~validateSchool(school)
        THEN /\ Respond("DELETE events", [tok |-> sessionId, school |-> school], 400, NoOut)
             /\ Same
        ELSE \E id \in EventIdInputs, queryFails \in BOOLEAN :
            LET args == [tok |-> sessionId, school |-> school, id |-> id] IN
            IF queryFails
            THEN Respond("DELETE events", QueryFailed(sessionId, school), 500, NoOut) /\ Same
            ELSE IF {e \in db.events[school] : e.id = id} = {}
            THEN Respond("DELETE events", args, 404, NoOut) /\ Same
            ELSE /\ StoresEvents(DeleteEventCascade(db, school, id))
                 /\ Respond("DELETE events", args, 200, NoOut)

DeleteEvent == Gated("DELETE events", DeleteEventHandler)

(***************************************************************************)
(* revs 1-3: the single-table API.  No route of these revisions reads a    *)
(* session header.  pool is the connection string the module's pool was    *)
(* made with; the store answers a statement when the pool reaches it and   *)
(* /api/init has created the tables.                                       *)
(***************************************************************************)
Revisions == {1, 2, 3}
GoodUrl == "postgres://calendar"
BadUrl == "postgres://nowhere"
UrlInputs == {Null, GoodUrl, BadUrl}

\* a body without a date, and "2025-06-<d>T20:00:00-07:00"
NoDate == [fmt |-> "none", day |-> 0]
Evening(d) == [fmt |-> "evening", day |-> d]
SingleDateInputs == {NoDate, Ymd(16), Evening(16), BadDate}
ScheduleInputs == {Null, "", "A", "C"}
DayTypeInputs == {Null, "", "holiday"}
SingleSchoolInputs == {Null, "wlhs", "zzz"}
TitleInputs == {Null, "Assembly"}

\* formatDate: new Date(dateInput) is NaN
formatDateThrows(d) == d.fmt = "bad"
\* formatDate: date.toISOString().split('T')[0], the calendar day in UTC
formatDate(d) == IF d.fmt = "evening" THEN d.day + 1 ELSE d.day

\* rev 3: the pool ensurePoolExists() returns; Null: it throws
ensurePoolExists == IF pool = Null \/ poolEnded THEN dbEnv ELSE pool

\* rev 3: ensurePoolExists() makes a pool: pool = initializePool()
MakesPool == rev = 3 /\ (pool = Null \/ poolEnded) /\ dbEnv # Null

\* the module's pool after a handler's first statement
Acquire ==
    IF MakesPool
    THEN /\ livePools < MaxPools
         /\ pool' = dbEnv
         /\ poolEnded' = FALSE
         /\ livePools' = livePools + 1
    ELSE UNCHANGED <<pool, poolEnded, livePools>>

\* the pool a handler of the running revision works with
ActivePool == IF rev = 3 THEN ensurePoolExists ELSE pool

\* rev 1, rev 2: if (!pool) return res.status(..); rev 3: the throw is caught
NoPoolStatus == IF rev = 1 THEN 400 ELSE 500

\* pool.connect() resolves
Connects(p) == p = GoodUrl

\* what a single-table handler did with the store: whether it sent a statement
\* and whether it still holds the client it checked out.  The handlers of
\* revs 1-3 call client.release() after their last statement, inside the try
\* block: a statement that throws skips it
Used(queried, threw) == [queried |-> queried, held |-> threw]

\* a single-table handler ends: its response, whether it sent a statement to the
\* store, the pool it leaves and the rows it leaves; a 500 after a statement was
\* sent is the catch block's answer to a statement that threw
Done(op, args, status, queried, newsdb) ==
    /\ Respond(op, args, status, Used(queried, queried /\ status = 500))
    /\ Acquire
    /\ IF newsdb = sdb
       THEN UNCHANGED <<sdb, writes>>
       ELSE /\ writes < MaxWrites
            /\ writes' = writes + 1
            /\ sdb' = newsdb
    /\ UNCHANGED <<multi, rev, dbEnv>>

\* POST /api/init; createFails: a CREATE statement throws.  revs 1 and 2 make a
\* pool from the body's dbUrl on every call; rev 3 only when it has none or an
\* ended one
ApiInit ==
    /\ rev \in Revisions
    /\ \E body \in UrlInputs, createFails \in BOOLEAN :
        LET dbUrl == IF rev = 3 /\ dbEnv # Null THEN dbEnv ELSE body
            makes == dbUrl # Null /\ (rev # 3 \/ pool = Null \/ poolEnded)
            p == IF makes THEN dbUrl ELSE pool
            connected == dbUrl # Null /\ Connects(p)
            args == [dbUrl |-> body, createFails |-> connected /\ createFails]
        IN  /\ IF makes
               THEN /\ livePools < MaxPools
                    /\ pool' = dbUrl
                    /\ poolEnded' = FALSE
                    /\ livePools' = livePools + 1
               ELSE UNCHANGED <<pool, poolEnded, livePools>>
            /\ IF dbUrl = Null
               THEN /\ Respond("init", args, 400, Used(FALSE, FALSE))
                    /\ UNCHANGED sdb
               ELSE IF ~connected
               THEN /\ Respond("init", args, 500, Used(FALSE, FALSE))
                    /\ UNCHANGED sdb
               ELSE IF createFails
               THEN /\ Respond("init", args, 500, Used(TRUE, TRUE))
                    /\ UNCHANGED sdb
               ELSE /\ Respond("init", args, 200, Used(TRUE, FALSE))
                    /\ sdb' = [sdb EXCEPT !.tables = TRUE]
            /\ UNCHANGED <<multi, rev, dbEnv, writes>>

\* the status a day route answers with before it sends a statement, 0 when it
\* goes on to the store; accepted: the value passes the route's validation
BeforeQuery(p, date, accepted) ==
    IF p = Null THEN NoPoolStatus
    ELSE IF rev # 1 /\ date = NoDate THEN 400
    ELSE IF rev # 1 /\ formatDateThrows(date) THEN 500
    ELSE IF ~Connects(p) THEN 500
    ELSE IF ~accepted THEN 400
    ELSE 0

\* the day route's statement: DELETE when the value is the clear value, else the
\* upsert; [ok, rows] where ok is FALSE when the store rejects the statement
DayStatement(t, date, day, clear, row) ==
    IF ~sdb.tables \/ ~PgDateOk(date) THEN [ok |-> FALSE, rows |-> t]
    ELSE IF clear
    THEN [ok |-> TRUE,
          rows |-> IF date = NoDate THEN t ELSE DeleteRows(t, RowsOfDate(t, day))]
    ELSE IF date = NoDate THEN [ok |-> FALSE, rows |-> t]
    ELSE [ok |-> TRUE, rows |-> Upsert(t, "date", row)]

\* POST /api/day-schedules
PostDaySchedule ==
    /\ rev \in Revisions
    /\ \E date \in SingleDateInputs, schedule \in ScheduleInputs, queryFails \in BOOLEAN :
        LET p == ActivePool
            clear == IF rev = 1 THEN schedule = Null ELSE schedule = Null \/ schedule = ""
            day == IF rev = 1 THEN PgDate(date) ELSE formatDate(date)
            early == BeforeQuery(p, date, rev = 1 \/ clear \/ schedule \in {"A", "B"})
            args == [date |-> date, schedule |-> schedule,
                     queryFails |-> early = 0 /\ queryFails]
            did == DayStatement(sdb.day_schedules, date, day, clear,
                                [date |-> day, schedule |-> schedule])
        IN  IF early # 0
            THEN Done("POST day-schedules", args, early, FALSE, sdb)
            ELSE IF queryFails \/ ~did.ok
            THEN Done("POST day-schedules", args, 500, TRUE, sdb)
            ELSE Done("POST day-schedules", args, 200, TRUE,
                      [sdb EXCEPT !.day_schedules = did.rows])

\* POST /api/day-types
PostDayType ==
    /\ rev \in Revisions
    /\ \E date \in SingleDateInputs, type \in DayTypeInputs, queryFails \in BOOLEAN :
        LET p == ActivePool
            clear == IF rev = 1 THEN type = Null ELSE type = Null \/ type = ""
            day == IF rev = 1 THEN PgDate(date) ELSE formatDate(date)
            early == BeforeQuery(p, date, TRUE)
            args == [date |-> date, type |-> type, queryFails |-> early = 0 /\ queryFails]
            did == DayStatement(sdb.day_types, date, day, clear,
                                [date |-> day, type |-> type])
        IN  IF early # 0
            THEN Done("POST day-types", args, early, FALSE, sdb)
            ELSE IF queryFails \/ ~did.ok
            THEN Done("POST day-types", args, 500, TRUE, sdb)
            ELSE Done("POST day-types", args, 200, TRUE,
                      [sdb EXCEPT !.day_types = did.rows])

\* !school, and ['wlhs', 'wvhs'].includes(school)
KnownSchool(school) == school \in {"wlhs", "wvhs"}

\* GET /api/events?school=; the response lists the school's events, of which the
\* model keeps the ids
GetEvents ==
    /\ rev \in Revisions
    /\ \E school \in SingleSchoolInputs, queryFails \in BOOLEAN :
        LET p == ActivePool
            early == IF p = Null THEN NoPoolStatus
                     ELSE IF rev # 1 /\ ~KnownSchool(school) THEN 400
                     ELSE IF ~Connects(p) THEN 500
                     ELSE 0
            args == [school |-> school, queryFails |-> early = 0 /\ queryFails]
        IN  IF early # 0
            THEN Done("GET events", args, early, FALSE, sdb)
            ELSE IF queryFails \/ ~sdb.tables
            THEN Done("GET events", args, 500, TRUE, sdb)
            ELSE /\ Respond("GET events", args, 200,
                            [queried |-> TRUE, held |-> FALSE,
                             ids |-> {e.id : e \in {x \in sdb.events : x.school = school}}])
                 /\ Acquire
                 /\ UNCHANGED <<multi, rev, dbEnv, sdb, writes>>

\* POST /api/events
CreateEvent ==
    /\ rev \in Revisions
    /\ \E school \in SingleSchoolInputs, date \in SingleDateInputs, title \in TitleInputs,
          queryFails \in BOOLEAN :
        LET p == ActivePool
            early == IF p = Null THEN NoPoolStatus
                     ELSE IF rev # 1 /\ (school = Null \/ date = NoDate \/ title = Null)
                     THEN 400
                     ELSE IF rev # 1 /\ ~KnownSchool(school) THEN 400
                     ELSE IF rev # 1 /\ formatDateThrows(date) THEN 500
                     ELSE IF ~Connects(p) THEN 500
                     ELSE 0
            args == [school |-> school, date |-> date, title |-> title,
                     queryFails |-> early = 0 /\ queryFails]
            id == sdb.events_seq + 1
            row == IF rev = 1
                   THEN [id |-> id, school |-> school, date |-> PgDate(date),
                         title |-> title, description |-> ""]
                   ELSE [id |-> id, school |-> school, date |-> formatDate(date),
                         title |-> title, department |-> Null, time |-> Null,
                         description |-> ""]
            bound == ~queryFails /\ sdb.tables /\ PgDateOk(date)
            inserted == bound /\ school # Null /\ date # NoDate /\ title # Null
            after == IF bound
                     THEN [sdb EXCEPT !.events_seq = id,
                                      !.events = IF inserted THEN @ \cup {row} ELSE @]
                     ELSE sdb
        IN  IF early # 0
            THEN Done("POST events", args, early, FALSE, sdb)
            ELSE /\ id <= MaxEventId
                 /\ Done("POST events", args, IF inserted THEN 200 ELSE 500, TRUE, after)

(***************************************************************************)
(* revs 2 and 3: materials.  rev 3 writes a material with its password and *)
(* falls back to the statement without the password column when that       *)
(* throws.  fail: how many of the handler's statements throw, first first. *)
(***************************************************************************)
GradeInputs == {9, 13}
MaterialDateInputs == {NoDate, Ymd(16)}
MaterialPasswords == {Null, "pw"}
MaterialTitles == {Null, "Notes", "Slides"}
MaterialIdInputs == {1, 2}
MaterialLink == "https://example.com/notes"

\* a handler that sends its failed statement once more
WriteStatements_Retried(verb) ==
    <<<<verb, "without password">>, <<verb, "without password">>>>

\* the write statements of a materials handler, in the order it tries them
WriteStatements(verb) ==
    IF rev = 3
    THEN <<<<verb, "with password">>, <<verb, "without password">>>>
    ELSE <<<<verb, "without password">>>>

\* the statements a handler sends when the first fail of them throw
Sent(statements, fail) ==
    SubSeq(statements, 1, IF fail < Len(statements) THEN fail + 1 ELSE Len(statements))

\* a materials handler answers: the statements it sent and the client it holds
Answer(op, args, status, statements, threw, newsdb) ==
    /\ Respond(op, args, status,
               [queried |-> statements # <<>>, held |-> threw, sent |-> statements,
                connects |-> 1, releases |-> IF threw THEN 0 ELSE 1, reused |-> FALSE])
    /\ Acquire
    /\ IF newsdb = sdb
       THEN UNCHANGED <<sdb, writes>>
       ELSE /\ writes < MaxWrites
            /\ writes' = writes + 1
            /\ sdb' = newsdb
    /\ UNCHANGED <<multi, rev, dbEnv>>

\* the code between client.release() and res.json throws.  In rev 3 it stands
\* in the inner try with the first statement: when that statement had run,
\* the catch block sends the fallback statement on the client already released
\* (reused) and calls client.release() again, which throws; the outer catch
\* answers 500.  The statements that ran are not undone.
AnswerThrown(op, args, statements, reused, newsdb) ==
    /\ Respond(op, args, 500,
               [queried |-> TRUE, held |-> FALSE, sent |-> statements, connects |-> 1,
                releases |-> IF reused THEN 2 ELSE 1, reused |-> reused])
    /\ Acquire
    /\ writes < MaxWrites
    /\ writes' = writes + 1
    /\ sdb' = newsdb
    /\ UNCHANGED <<multi, rev, dbEnv>>

\* a materials handler answers before it has a client; connects: calls of
\* pool.connect() it made
Refuse(op, args, status, connects) ==
    /\ Respond(op, args, status,
               [queried |-> FALSE, held |-> FALSE, sent |-> <<>>, connects |-> connects,
                releases |-> 0, reused |-> FALSE])
    /\ Acquire
    /\ UNCHANGED <<multi, rev, dbEnv, sdb, writes>>

\* POST /api/materials
PostMaterial ==
    /\ rev \in {2, 3}
    /\ \E school \in SingleSchoolInputs, date \in MaterialDateInputs, grade \in GradeInputs,
          password \in MaterialPasswords, fail \in 0..2, respondThrows \in BOOLEAN :
        LET p == ActivePool
            statements == WriteStatements("INSERT")
            threw == IF sdb.tables THEN fail ELSE Len(statements)
            id == sdb.materials_seq + 1
            reused == rev = 3 /\ threw = 0
            row == [id |-> id, school |-> school, date |-> formatDate(date),
                    grade_level |-> grade, title |-> "Notes", link |-> MaterialLink,
                    password |-> IF rev = 3 /\ threw = 0 THEN OrEmpty(password) ELSE ""]
            stored == /\ p # Null /\ KnownSchool(school) /\ date # NoDate
                      /\ grade \in {9, 10, 11, 12} /\ ~formatDateThrows(date)
                      /\ Connects(p) /\ threw < Len(statements)
            args == [school |-> school, date |-> date, grade_level |-> grade,
                     password |-> password, fail |-> fail,
                     respondThrows |-> respondThrows /\ stored]
        IN  IF p = Null THEN Refuse("POST materials", args, 500, 0)
            ELSE IF school = Null \/ date = NoDate
            THEN Refuse("POST materials", args, 400, 0)
            ELSE IF ~KnownSchool(school) THEN Refuse("POST materials", args, 400, 0)
            ELSE IF grade \notin {9, 10, 11, 12}
            THEN Refuse("POST materials", args, 400, 0)
            ELSE IF formatDateThrows(date) THEN Refuse("POST materials", args, 500, 0)
            ELSE IF ~Connects(p) THEN Refuse("POST materials", args, 500, 1)
            ELSE IF threw >= Len(statements)
            THEN Answer("POST materials", args, 500, Sent(statements, threw), TRUE, sdb)
            ELSE IF respondThrows
            THEN AnswerThrown("POST materials", args,
                     IF reused THEN statements ELSE Sent(statements, threw), reused,
                     [sdb EXCEPT !.materials_seq = IF reused THEN id + 1 ELSE id,
                                 !.materials = @ \cup {row} \cup
                                     (IF reused
                                      THEN {[row EXCEPT !.id = id + 1, !.password = ""]}
                                      ELSE {})])
            ELSE Answer("POST materials", args, 200, Sent(statements, threw), FALSE,
                        [sdb EXCEPT !.materials_seq = id, !.materials = @ \cup {row}])

\* PUT /api/materials/:id
PutMaterial ==
    /\ rev \in {2, 3}
    /\ \E id \in MaterialIdInputs, title \in MaterialTitles,
          password \in MaterialPasswords, fail \in 0..2, respondThrows \in BOOLEAN :
        LET p == ActivePool
            statements == WriteStatements("UPDATE")
            threw == IF sdb.tables THEN fail ELSE Len(statements)
            old == {r \in sdb.materials : r.id = id}
            new == {[r EXCEPT !.title = title,
                              !.password = IF rev = 3 /\ threw = 0
                                           THEN OrEmpty(password) ELSE @] : r \in old}
            stored == /\ p # Null /\ title # Null /\ Connects(p)
                      /\ threw < Len(statements) /\ old # {}
            reused == rev = 3 /\ threw = 0
            args == [id |-> id, title |-> title, password |-> password, fail |-> fail,
                     respondThrows |-> respondThrows /\ stored]
        IN  IF p = Null THEN Refuse("PUT materials", args, 500, 0)
            ELSE IF title = Null THEN Refuse("PUT materials", args, 400, 0)
            ELSE IF ~Connects(p) THEN Refuse("PUT materials", args, 500, 1)
            ELSE IF threw >= Len(statements)
            THEN Answer("PUT materials", args, 500, Sent(statements, threw), TRUE, sdb)
            ELSE IF old = {}
            THEN Answer("PUT materials", args, 404, Sent(statements, threw), FALSE, sdb)
            ELSE IF respondThrows
            THEN AnswerThrown("PUT materials", args,
                     IF reused THEN statements ELSE Sent(statements, threw), reused,
                     [sdb EXCEPT !.materials = (@ \ old) \cup new])
            ELSE Answer("PUT materials", args, 200, Sent(statements, threw), FALSE,
                        [sdb EXCEPT !.materials = (@ \ old) \cup new])

\* DELETE /api/materials/:id
DeleteMaterial ==
    /\ rev \in {2, 3}
    /\ \E id \in MaterialIdInputs, queryFails \in BOOLEAN :
        LET p == ActivePool
            args == [id |-> id, queryFails |-> queryFails]
            old == {r \in sdb.materials : r.id = id}
        IN  IF p = Null THEN Refuse("DELETE materials", args, 500, 0)
            ELSE IF ~Connects(p) THEN Refuse("DELETE materials", args, 500, 1)
            ELSE IF queryFails \/ ~sdb.tables
            THEN Answer("DELETE materials", args, 500, <<<<"DELETE", "by id">>>>, TRUE, sdb)
            ELSE IF old = {}
            THEN Answer("DELETE materials", args, 404, <<<<"DELETE", "by id">>>>, FALSE, sdb)
            ELSE Answer("DELETE materials", args, 200, <<<<"DELETE", "by id">>>>, FALSE,
                        [sdb EXCEPT !.materials = @ \ old])

\* the tables DELETE /api/clear-all empties, in the order of its statements
ClearOrder ==
    IF rev = 1 THEN <<"events", "day_schedules", "day_types">>
    ELSE <<"materials", "events", "day_schedules", "day_types">>

\* DELETE FROM <each of the first n tables of ClearOrder>
Cleared(s, n) ==
    [f \in DOMAIN s |->
        IF \E i \in 1..n : ClearOrder[i] = f
        THEN (IF f \in {"events", "materials"} THEN {} ELSE <<>>)
        ELSE s[f]]

\* DELETE /api/clear-all; fail: the number of the DELETE that throws, 0 for none
ClearAll ==
    /\ rev \in Revisions
    /\ \E fail \in 0..Len(ClearOrder) :
        LET p == ActivePool
            early == IF p = Null THEN NoPoolStatus
                     ELSE IF ~Connects(p) THEN 500
                     ELSE 0
            args == [fail |-> IF early = 0 THEN fail ELSE 0]
        IN  IF early # 0
            THEN Done("DELETE clear-all", args, early, FALSE, sdb)
            ELSE IF ~sdb.tables
            THEN Done("DELETE clear-all", args, 500, TRUE, sdb)
            ELSE IF fail # 0
            THEN Done("DELETE clear-all", args, 500, TRUE, Cleared(sdb, fail - 1))
            ELSE Done("DELETE clear-all", args, 200, TRUE, Cleared(sdb, Len(ClearOrder)))

(***************************************************************************)
(* rev 4: the store after startup (createTables, then seedSampleData on    *)
(* the empty events table).                                                *)
(***************************************************************************)
SampleEvents ==
    {[id |-> 1, title |-> "Basketball Game vs. Riverside", date |-> 15, time |-> "7:00 PM",
         department |-> "athletics", description |-> "Home game against Riverside High School"],
     [id |-> 2, title |-> "SAT Testing", date |-> 7, time |-> "8:00 AM",
         department |-> "testing", description |-> "Standardized SAT testing for juniors and seniors"],
     [id |-> 3, title |-> "Spring Concert", date |-> 20, time |-> "7:30 PM",
         department |-> "arts", description |-> "Annual spring music concert featuring all grade levels"]}

SampleCurriculum(school) ==
    IF school = "wlhs"
    THEN <<[event_id |-> 1, grade |-> 9,
              links |-> "https://example.com/wlhs/grade9-athletics",
              description |-> "Grade 9 athletics curriculum"],
          [event_id |-> 1, grade |-> 10,
              links |-> "https://example.com/wlhs/grade10-athletics",
              description |-> "Grade 10 athletics curriculum"],
          [event_id |-> 1, grade |-> 11,
              links |-> "https://example.com/wlhs/grade11-athletics",
              description |-> "Grade 11 athletics curriculum"],
          [event_id |-> 1, grade |-> 12,
              links |-> "https://example.com/wlhs/grade12-athletics",
              description |-> "Grade 12 athletics curriculum"],
          [event_id |-> 2, grade |-> 9,
              links |-> "https://example.com/wlhs/grade9-testing",
              description |-> "Grade 9 testing curriculum"],
          [event_id |-> 2, grade |-> 10,
              links |-> "https://example.com/wlhs/grade10-testing",
              description |-> "Grade 10 testing curriculum"],
          [event_id |-> 2, grade |-> 11,
              links |-> "https://example.com/wlhs/grade11-testing",
              description |-> "Grade 11 testing curriculum"],
          [event_id |-> 2, grade |-> 12,
              links |-> "https://example.com/wlhs/grade12-testing",
              description |-> "Grade 12 testing curriculum"],
          [event_id |-> 3, grade |-> 9,
              links |-> "https://example.com/wlhs/grade9-arts",
              description |-> "Grade 9 arts curriculum"],
          [event_id |-> 3, grade |-> 10,
              links |-> "https://example.com/wlhs/grade10-arts",
              description |-> "Grade 10 arts curriculum"],
          [event_id |-> 3, grade |-> 11,
              links |-> "https://example.com/wlhs/grade11-arts",
              description |-> "Grade 11 arts curriculum"],
          [event_id |-> 3, grade |-> 12,
              links |-> "https://example.com/wlhs/grade12-arts",
              description |-> "Grade 12 arts curriculum"]>>
    ELSE <<[event_id |-> 1, grade |-> 9,
              links |-> "https://example.com/wvhs/grade9-athletics",
              description |-> "Grade 9 athletics curriculum"],
          [event_id |-> 1, grade |-> 10,
              links |-> "https://example.com/wvhs/grade10-athletics",
              description |-> "Grade 10 athletics curriculum"],
          [event_id |-> 1, grade |-> 11,
              links |-> "https://example.com/wvhs/grade11-athletics",
              description |-> "Grade 11 athletics curriculum"],
          [event_id |-> 1, grade |-> 12,
              links |-> "https://example.com/wvhs/grade12-athletics",
              description |-> "Grade 12 athletics curriculum"],
          [event_id |-> 2, grade |-> 9,
              links |-> "https://example.com/wvhs/grade9-testing",
              description |-> "Grade 9 testing curriculum"],
          [event_id |-> 2, grade |-> 10,
              links |-> "https://example.com/wvhs/grade10-testing",
              description |-> "Grade 10 testing curriculum"],
          [event_id |-> 2, grade |-> 11,
              links |-> "https://example.com/wvhs/grade11-testing",
              description |-> "Grade 11 testing curriculum"],
          [event_id |-> 2, grade |-> 12,
              links |-> "https://example.com/wvhs/grade12-testing",
              description |-> "Grade 12 testing curriculum"],
          [event_id |-> 3, grade |-> 9,
              links |-> "https://example.com/wvhs/grade9-arts",
              description |-> "Grade 9 arts curriculum"],
          [event_id |-> 3, grade |-> 10,
              links |-> "https://example.com/wvhs/grade10-arts",
              description |-> "Grade 10 arts curriculum"],
          [event_id |-> 3, grade |-> 11,
              links |-> "https://example.com/wvhs/grade11-arts",
              description |-> "Grade 11 arts curriculum"],
          [event_id |-> 3, grade |-> 12,
              links |-> "https://example.com/wvhs/grade12-arts",
              description |-> "Grade 12 arts curriculum"]>>

SampleDayLabels ==
    <<[date |-> 1, label |-> "A"],
      [date |-> 2, label |-> "B"],
      [date |-> 3, label |-> "A"],
      [date |-> 4, label |-> "B"],
      [date |-> 5, label |-> "A"],
      [date |-> 6, label |-> "-"],
      [date |-> 7, label |-> "-"],
      [date |-> 8, label |-> "B"],
      [date |-> 9, label |-> "A"],
      [date |-> 10, label |-> "B"]>>

SampleSpecialDays ==
    <<[date |-> 16, type |-> "finals", description |-> "Final exams week begins"],
      [date |-> 17, type |-> "grading-day", description |-> "Grading day - no students"],
      [date |-> 30, type |-> "holiday", description |-> "Summer break begins"],
      [date |-> 13, type |-> "early-release", description |-> "Early dismissal at 1:00 PM"],
      [date |-> 25, type |-> "access", description |-> "ACCESS day"],
      [date |-> 27, type |-> "staff-development", description |-> "Staff development day"]>>

\* JSON.stringify(defaultSettings)
defaultSettings == "{styles:default}"

seedSampleData ==
    [admin_sessions |-> {},
     events |-> [s \in Schools |-> SampleEvents],
     events_seq |-> [s \in Schools |-> Cardinality(SampleEvents)],
     life_curriculum |-> [s \in Schools |-> SampleCurriculum(s)],
     day_labels |-> [s \in Schools |-> SampleDayLabels],
     special_days |-> [s \in Schools |-> SampleSpecialDays],
     school_settings |-> <<[school |-> "wlhs", settings |-> defaultSettings],
                           [school |-> "wvhs", settings |-> defaultSettings]>>,
     school_banners |-> <<>>,
     custom_links |-> {},
     links_seq |-> 0,
     home_buttons |-> {[school |-> "wlhs", title |-> "West Linn High School"],
                       [school |-> "wvhs", title |-> "West Valley High School"]}]

\* revs 1-3 are not running
NoSingle == [tables |-> FALSE, day_schedules |-> <<>>, day_types |-> <<>>,
             events |-> {}, events_seq |-> 0, materials |-> {}, materials_seq |-> 0]

\* rev 4 has started on a fresh database
Init ==
    /\ rev = 4
    /\ now = 0
    /\ db = seedSampleData
    /\ sidCount = 0
    /\ issuedAt = [t \in {} |-> 0]
    /\ revoked = {}
    /\ writes = 0
    /\ last = [op |-> "start", args |-> NoOut, status |-> 0, out |-> NoOut]
    /\ pool = Null
    /\ dbEnv = Null
    /\ sdb = NoSingle
    /\ poolEnded = FALSE
    /\ livePools = 0
    /\ inflight = NoRequests

\* rev 4 is not running: no table of it exists
NoMulti == [admin_sessions |-> {}]

\* one of revs 1-3 has started next to a fresh database; rev 3 makes its pool
\* at load time when DATABASE_URL is set
InitSingle ==
    /\ rev \in Revisions
    /\ dbEnv \in (IF rev = 3 THEN {Null, GoodUrl} ELSE {Null})
    /\ pool = dbEnv
    /\ poolEnded = FALSE
    /\ livePools = (IF pool = Null THEN 0 ELSE 1)
    /\ inflight = NoRequests
    /\ sdb = NoSingle
    /\ now = 0
    /\ db = NoMulti
    /\ sidCount = 0
    /\ issuedAt = [t \in {} |-> 0]
    /\ revoked = {}
    /\ writes = 0
    /\ last = [op |-> "start", args |-> NoOut, status |-> 0, out |-> NoOut]

(***************************************************************************)
(* rev 4: startup against a store that startup has initialized before.     *)
(***************************************************************************)
\* plain INSERTs of rows into a table whose date column is UNIQUE, one statement
\* per row in order; the first duplicate date throws and ends the run
RECURSIVE InsertAll(_, _)
InsertAll(t, rows) ==
    IF rows = <<>>
    THEN [table |-> t, ok |-> TRUE]
    ELSE IF \E r \in Rows(t) : r.date = Head(rows).date
    THEN [table |-> t, ok |-> FALSE]
    ELSE InsertAll(Append(t, Head(rows)), Tail(rows))

\* INSERT INTO school_settings ... ON CONFLICT (school) DO NOTHING
InsertSettings(t, school) ==
    IF \E r \in Rows(t) : r.school = school
    THEN t
    ELSE Append(t, [school |-> school, settings |-> defaultSettings])

\* the body of seedSampleData's loop for one school: the sample events with
\* their curriculum rows under fresh serial ids, then the day labels, the
\* special days and the default settings, each statement committed on its own
SeedSchool(d, school) ==
    LET base   == d.events_seq[school]
        d1     == [d EXCEPT
                      !.events[school] = @ \cup {[e EXCEPT !.id = @ + base] : e \in SampleEvents},
                      !.events_seq[school] = @ + Cardinality(SampleEvents),
                      !.life_curriculum[school] =
                          @ \o [i \in 1..Len(SampleCurriculum(school)) |->
                                  [SampleCurriculum(school)[i] EXCEPT !.event_id = @ + base]]]
        labels == InsertAll(d1.day_labels[school], SampleDayLabels)
        d2     == [d1 EXCEPT !.day_labels[school] = labels.table]
        days   == InsertAll(d2.special_days[school], SampleSpecialDays)
        d3     == [d2 EXCEPT !.special_days[school] = days.table]
    IN  IF ~labels.ok THEN [db |-> d2, ok |-> FALSE]
        ELSE IF ~days.ok THEN [db |-> d3, ok |-> FALSE]
        ELSE [db |-> [d3 EXCEPT
                         !.school_settings = InsertSettings(@, school),
                         !.home_buttons =
                             IF \E r \in @ : r.school = school THEN @
                             ELSE @ \cup {[school |-> school,
                                           title |-> IF school = "wlhs"
                                                     THEN "West Linn High School"
                                                     ELSE "West Valley High School"]}],
              ok |-> TRUE]

\* seedSampleData(client) on the store d: nothing when events_wlhs has a row,
\* else both schools in turn
Seeded(d) ==
    IF d.events["wlhs"] # {}
    THEN [db |-> d, ok |-> TRUE]
    ELSE LET a == SeedSchool(d, "wlhs")
         IN  IF a.ok THEN SeedSchool(a.db, "wvhs") ELSE a

\* the process starts again: startServer runs initializeDatabase (createTables,
\* whose statements are all IF NOT EXISTS, then seedSampleData) and listens
\* only when it did not throw
InitializeDatabase ==
    /\ rev = 4
    /\ LET r == Seeded(db)
       IN  /\ Respond("initializeDatabase", [seeds |-> db.events["wlhs"] = {}], 0,
                      [started |-> r.ok])
           /\ IF r.db = db THEN Same ELSE Stores(r.db)

\* the stores that DELETE requests on the WLHS events leave of the fresh store
RECURSIVE DeletedAll(_, _, _)
DeletedAll(d, school, ids) ==
    IF ids = {}
    THEN d
    ELSE LET id == CHOOSE i \in ids : TRUE
         IN  DeletedAll(DeleteEventCascade(d, school, id), school, ids \ {id})

\* rev 4 is running and some of the WLHS sample events have been deleted
InitStartup ==
    /\ rev = 4
    /\ now = 0
    /\ \E ids \in SUBSET {e.id : e \in SampleEvents} :
           db = DeletedAll(seedSampleData, "wlhs", ids)
    /\ sidCount = 0
    /\ issuedAt = [t \in {} |-> 0]
    /\ revoked = {}
    /\ writes = 0
    /\ last = [op |-> "start", args |-> NoOut, status |-> 0, out |-> NoOut]
    /\ pool = Null
    /\ dbEnv = Null
    /\ sdb = NoSingle
    /\ poolEnded = FALSE
    /\ livePools = 0
    /\ inflight = NoRequests

(***************************************************************************)
(* rev 4: PUT /api/home/buttons/:school.  The handler awaits its UPDATE    *)
(* and then its INSERT on the pool, each statement atomic in the store;    *)
(* between the two, and between the gate and the first, the statements of  *)
(* other requests run.  The uploaded image is left out.                    *)
(***************************************************************************)
ButtonTitleInputs == {Null, "Go Lions", "Welcome"}

\* what a step of a home buttons request leaves alone besides the store
ButtonFrame == <<rev, pool, dbEnv, sdb, poolEnded, livePools, now, sidCount, issuedAt,
                 revoked, writes>>

\* request i has its answer
ButtonAnswered(i, r, status) ==
    /\ inflight' = [inflight EXCEPT ![i] = [r EXCEPT !.pc = "done", !.status = status]]
    /\ Respond("PUT home-buttons",
               [request |-> i, school |-> r.school, title |-> r.title], status, NoOut)

\* the request arrives: requireAdmin, then validateSchool
ButtonArrives ==
    /\ rev = 4
    /\ \E i \in 1..MaxRequests :
        /\ inflight[i].pc = "idle"
        /\ \A j \in 1..(i - 1) : inflight[j].pc # "idle"
        /\ \E sessionId \in Tokens, lookupFails \in BOOLEAN, school \in SchoolInputs,
              title \in ButtonTitleInputs :
            LET gate == requireAdmin(sessionId, lookupFails)
                r == [pc |-> "update", school |-> school, title |-> title,
                      passed |-> gate = PassedOn /\ validateSchool(school), status |-> 0]
            IN  IF gate # PassedOn THEN ButtonAnswered(i, r, gate)
                ELSE IF ~validateSchool(school) THEN ButtonAnswered(i, r, 400)
                ELSE inflight' = [inflight EXCEPT ![i] = r] /\ UNCHANGED last
    /\ UNCHANGED <<db, ButtonFrame>>

\* UPDATE home_buttons SET title = $2 WHERE school = $1 RETURNING *; a null
\* title violates NOT NULL when a row matches
ButtonUpdate ==
    /\ rev = 4
    /\ \E i \in 1..MaxRequests :
        LET r == inflight[i]
            rows == {b \in db.home_buttons : b.school = r.school}
        IN  /\ r.pc = "update"
            /\ IF rows = {}
               THEN /\ inflight' = [inflight EXCEPT ![i].pc = "insert"]
                    /\ UNCHANGED <<db, last>>
               ELSE IF r.title = Null
               THEN ButtonAnswered(i, r, 500) /\ UNCHANGED db
               ELSE /\ db' = [db EXCEPT !.home_buttons =
                                 (@ \ rows) \cup {[b EXCEPT !.title = r.title] : b \in rows}]
                    /\ ButtonAnswered(i, r, 200)
    /\ UNCHANGED ButtonFrame

\* INSERT INTO home_buttons (school, title, ..) VALUES ($1, $2, ..): school is
\* UNIQUE and title NOT NULL; a violation throws and the catch answers 500
ButtonInsert ==
    /\ rev = 4
    /\ \E i \in 1..MaxRequests :
        LET r == inflight[i]
        IN  /\ r.pc = "insert"
            /\ IF r.title = Null \/ \E b \in db.home_buttons : b.school = r.school
               THEN ButtonAnswered(i, r, 500) /\ UNCHANGED db
               ELSE /\ db' = [db EXCEPT !.home_buttons =
                                 @ \cup {[school |-> r.school, title |-> r.title]}]
                    /\ ButtonAnswered(i, r, 200)
    /\ UNCHANGED ButtonFrame

\* rev 4 runs on a store whose home_buttons table createTables has just made
\* (the events were there before, so seedSampleData returned at once), or on
\* the store as seeded
InitButtons ==
    /\ rev = 4
    /\ now = 0
    /\ db \in {seedSampleData, [seedSampleData EXCEPT !.home_buttons = {}]}
    /\ sidCount = 0
    /\ issuedAt = [t \in {} |-> 0]
    /\ revoked = {}
    /\ writes = 0
    /\ last = [op |-> "start", args |-> NoOut, status |-> 0, out |-> NoOut]
    /\ pool = Null
    /\ dbEnv = Null
    /\ sdb = NoSingle
    /\ poolEnded = FALSE
    /\ livePools = 0
    /\ inflight = NoRequests

\* sessions, the gate in front of a write, and the clock
Next ==
    \/ AdminLogin
    \/ AdminLogout
    \/ AdminVerify
    \/ Tick
    \/ PutDayLabel

Spec == Init /\ [][Next]_vars

\* the administrator opens one session
FirstLogin == sidCount = 0 /\ AdminLogin

\* the date-keyed and school-keyed tables
NextDays ==
    \/ FirstLogin
    \/ PutDayLabel
    \/ DeleteDayLabel
    \/ PutSpecialDay
    \/ PutSettings
    \/ PutBanner

SpecDays == Init /\ [][NextDays]_vars

\* the event transactions
NextEvents ==
    \/ FirstLogin
    \/ PostEvent
    \/ PutEvent
    \/ DeleteEvent

SpecEvents == Init /\ [][NextEvents]_vars

\* the single-table revisions
NextSingle ==
    \/ ApiInit
    \/ PostDaySchedule
    \/ PostDayType
    \/ GetEvents
    \/ CreateEvent
    \/ ClearAll

SpecSingle == InitSingle /\ [][NextSingle]_vars

\* rev 3 in any state its module can hold when a handler calls ensurePoolExists:
\* DATABASE_URL set or not, the pool made at load time or by /api/init or not at
\* all, and ended (pool.end() of the signal handlers) or not
InitAcquire ==
    /\ rev = 3
    /\ dbEnv \in {Null, GoodUrl}
    /\ pool \in (IF dbEnv # Null THEN {dbEnv} ELSE UrlInputs)
    /\ poolEnded \in (IF pool = Null THEN {FALSE} ELSE BOOLEAN)
    /\ livePools = (IF pool = Null \/ poolEnded THEN 0 ELSE 1)
    /\ inflight = NoRequests
    /\ sdb \in {NoSingle, [NoSingle EXCEPT !.tables = TRUE]}
    /\ now = 0
    /\ db = NoMulti
    /\ sidCount = 0
    /\ issuedAt = [t \in {} |-> 0]
    /\ revoked = {}
    /\ writes = 0
    /\ last = [op |-> "start", args |-> NoOut, status |-> 0, out |-> NoOut]

SpecAcquire == InitAcquire /\ [][NextSingle]_vars

\* the routes that address a row by its identifier, of every revision
NextById ==
    \/ FirstLogin
    \/ PutEvent
    \/ DeleteEvent
    \/ DeleteDayLabel
    \/ PostLink
    \/ PutLink
    \/ DeleteLink
    \/ ApiInit
    \/ PostMaterial
    \/ PutMaterial
    \/ DeleteMaterial

SpecById == (Init \/ InitSingle) /\ [][NextById]_vars

\* restarts between the requests that delete events and day labels
NextStartup ==
    \/ FirstLogin
    \/ DeleteEvent
    \/ DeleteDayLabel
    \/ PutDayLabel
    \/ InitializeDatabase

SpecStartup == InitStartup /\ [][NextStartup]_vars

\* the materials routes of revs 2 and 3
NextMaterials ==
    \/ ApiInit
    \/ PostMaterial
    \/ PutMaterial
    \/ DeleteMaterial

SpecMaterials == InitSingle /\ [][NextMaterials]_vars

\* the rev 4 routes that write under a school's path (the event transactions
\* have SpecEvents)
NextSchools ==
    \/ FirstLogin
    \/ PutDayLabel
    \/ DeleteDayLabel
    \/ PutSpecialDay
    \/ PutSettings
    \/ PutBanner
    \/ PostLink
    \/ PutLink
    \/ DeleteLink
    \/ DeleteEvent

SpecSchools == Init /\ [][NextSchools]_vars

\* concurrent requests to PUT /api/home/buttons/:school
NextButtons ==
    \/ FirstLogin
    \/ ButtonArrives
    \/ ButtonUpdate
    \/ ButtonInsert

SpecButtons == InitButtons /\ [][NextButtons]_vars

\* every upsert route of every revision
NextUpsert ==
    \/ FirstLogin
    \/ PutDayLabel
    \/ PutSpecialDay
    \/ PutSettings
    \/ PutBanner
    \/ ApiInit
    \/ PostDaySchedule
    \/ PostDayType

SpecUpsert == (Init \/ InitSingle) /\ [][NextUpsert]_vars

(***************************************************************************)
(* The session claims, checked under Spec.  A step that leaves the clock   *)
(* alone is the handling of one request; last' is that request and its     *)
(* response, the unprimed variables are the state the request found.       *)
(***************************************************************************)
GatedOps ==
    {"PUT day-labels", "DELETE day-labels", "PUT special-days", "PUT settings",
     "PUT banner", "POST events", "PUT events", "DELETE events"}

\* the step handles a request to a route behind requireAdmin
GatedStep == now' = now /\ last'.op \in GatedOps

\* the gate answered the request itself
GateDenied(l) == "denied" \in DOMAIN l.args

\* admin_sessions holds a row for token t that expires strictly after the clock
Live(t) == \E r \in db.admin_sessions : r.session_id = t /\ r.expires_at > now

\* C1: a request to a gated route that carries no token, an unknown token or an
\* expired token leaves every stored row as it was, and is answered 401 (500 when
\* the lookup of the session itself throws)
C1_DeniedWriteChangesNothing ==
    [][(GatedStep /\ ~Live(last'.args.tok))
          => /\ db' = db
             /\ GateDenied(last')
             /\ last'.status = IF last'.args.lookupFails THEN 500 ELSE 401]_vars

\* C1: the token of a session that has expired, and was never logged out, is
\* refused on PUT day-labels
C1_Witness ==
    /\ last.op = "PUT day-labels"
    /\ last.status = 401
    /\ last.args.tok \in DOMAIN issuedAt
    /\ last.args.tok \notin revoked
    /\ now > issuedAt[last.args.tok] + SessionHours

\* C2: requireAdmin and POST /api/admin/verify accept token t exactly when
\* admin_sessions holds a row with session_id = t and expires_at > now; an absent or
\* empty token is refused without any lookup; a refusal is 401 or valid:false, and
\* an error status appears only when the lookup itself throws
C2_AcceptsIffLiveRow ==
    [][/\ GatedStep =>
            IF GateDenied(last')
            THEN IF last'.args.lookupFails
                 THEN last'.status = 500 /\ last'.args.tok \notin {NoToken, ""}
                 ELSE last'.status = 401 /\ ~Live(last'.args.tok)
            ELSE Live(last'.args.tok)
       /\ (now' = now /\ last'.op = "verify") =>
            IF last'.args.lookupFails
            THEN /\ last'.status = 500
                 /\ ~last'.out.valid
                 /\ last'.args.tok \notin {NoToken, ""}
            ELSE /\ last'.out.valid = Live(last'.args.tok)
                 /\ last'.status = IF last'.args.tok \in {NoToken, ""} THEN 401 ELSE 200
      ]_vars

\* C2: verify answers valid:false at the very hour the row expires, the row still
\* being in the table
C2_Witness ==
    /\ last.op = "verify"
    /\ last.status = 200
    /\ ~last.out.valid
    /\ \E r \in db.admin_sessions :
          r.session_id = last.args.tok /\ r.expires_at = now

\* the request's token was issued by a login and is logged out, or is older than
\* the session length
Lapsed(t) ==
    /\ t \in DOMAIN issuedAt
    /\ t \in revoked \/ now > issuedAt[t] + SessionHours

\* C3: once the logout of an issued token has completed, and also once more than
\* 8 hours have passed since its login, every check of the token fails: the gate
\* refuses the request and verify answers valid:false, whatever earlier requests
\* with the token were allowed
C3_RevokedOrExpiredIsRefused ==
    [][/\ (GatedStep /\ Lapsed(last'.args.tok)) => GateDenied(last')
       /\ (now' = now /\ last'.op = "verify" /\ Lapsed(last'.args.tok))
              => ~last'.out.valid
      ]_vars

\* C3: the only session there is made a write, was logged out, and its token is
\* then refused on a gated route
C3_Witness ==
    /\ last.op \in GatedOps
    /\ GateDenied(last)
    /\ last.status = 401
    /\ last.args.tok \in revoked
    /\ sidCount = 1
    /\ writes > 0

\* C4: a login with a password other than the server's is answered 401 and adds no
\* session row; a login with the server's password that the store completes adds
\* exactly one row, for a token no row held, with expiry = login time + 8 hours,
\* and returns that token and expiry; a login the store fails adds no row
C4_LoginIssuesOneSession ==
    [][(now' = now /\ last'.op = "login") =>
          LET old == db.admin_sessions
              new == db'.admin_sessions
          IN  IF last'.args.password # AdminPassword
              THEN last'.status = 401 /\ new = old
              ELSE /\ last'.status = IF last'.args.fail = 0 THEN 200 ELSE 500
                   /\ IF last'.status = 200
                      THEN /\ new \ old = {[session_id |-> last'.out.sessionId,
                                            expires_at |-> now + SessionHours]}
                           /\ last'.out.expiresAt = now + SessionHours
                           /\ \A r \in old : r.session_id # last'.out.sessionId
                      ELSE new \subseteq old
      ]_vars

\* C4: a second login succeeds while the first session's row is still stored
C4_Witness ==
    /\ last.op = "login"
    /\ last.status = 200
    /\ Cardinality(db.admin_sessions) = 2
    /\ \E r \in db.admin_sessions :
          r.session_id = last.out.sessionId /\ r.expires_at = last.out.expiresAt

(***************************************************************************)
(* The single-table claims, checked under SpecSingle: every step is the    *)
(* handling of one request.                                                *)
(***************************************************************************)
AdminOnlyOps == {"DELETE clear-all", "POST day-schedules", "POST day-types"}

\* C5: in revs 1-3 a request to DELETE /api/clear-all, POST /api/day-schedules or
\* POST /api/day-types that carries no live admin session is refused (the interface
\* table says with 401) and deletes or writes nothing
C5_AdminOnlyWritesNeedSession ==
    [][(last'.op \in AdminOnlyOps /\ \A r \in db.admin_sessions : ~(r.expires_at > now))
          => last'.status # 200 /\ sdb' = sdb]_vars

\* C6: where the service has a pool that reaches an initialised store, a request
\* to /api/events that names a school other than wlhs and wvhs is answered 400
\* and no statement is sent to the store
C6_UnknownSchoolRejectedFirst ==
    (/\ last.op \in {"GET events", "POST events"}
     /\ rev \in Revisions
     /\ pool = GoodUrl
     /\ sdb.tables
     /\ last.args.school \notin Schools \cup {Null})
        => last.status = 400 /\ ~last.out.queried

(***************************************************************************)
(* The upsert claims.                                                      *)
(***************************************************************************)
\* no two rows of table t agree on column key
OneRowPerKey(t, key) == \A i, j \in 1..Len(t) : t[i][key] = t[j][key] => i = j

\* every keyed table of the running revision has at most one row per key
KeysUnique ==
    IF rev = 4
    THEN /\ \A school \in Schools :
               /\ OneRowPerKey(db.day_labels[school], "date")
               /\ OneRowPerKey(db.special_days[school], "date")
         /\ OneRowPerKey(db.school_settings, "school")
         /\ OneRowPerKey(db.school_banners, "school")
    ELSE /\ OneRowPerKey(sdb.day_schedules, "date")
         /\ OneRowPerKey(sdb.day_types, "date")

UpsertOps ==
    {"PUT day-labels", "PUT special-days", "PUT settings", "PUT banner",
     "POST day-schedules", "POST day-types"}

\* C7 (SpecUpsert): in every reachable state each date-keyed table holds at most
\* one row per date and each school-keyed table at most one row per school; and a
\* successful upsert request that repeats the request before it leaves all stored
\* rows as that request left them
C7_OneRowPerKeyAndIdempotent ==
    /\ KeysUnique
    /\ [][/\ KeysUnique'
          /\ (last' = last /\ last.op \in UpsertOps /\ last.status = 200)
                => db' = db /\ sdb' = sdb
         ]_vars

\* C7: two writes went to one school's label of one date, which was not in the
\* table before; the table holds one row for the date and nothing else changed
C7_Witness ==
    /\ rev = 4
    /\ writes = 2
    /\ last.op = "PUT day-labels"
    /\ last.status = 200
    /\ db.day_labels[last.args.school] =
           Append(SampleDayLabels, [date |-> last.args.date.day, label |-> last.args.label])
    /\ [db EXCEPT !.day_labels[last.args.school] = SampleDayLabels,
                  !.admin_sessions = {}] = seedSampleData

\* the rows of a list read that carry date d
OfDate(list, d) == {i \in 1..Len(list) : list[i].date = d}

\* C8 (SpecDays): after a successful PUT of a day label the list of the school's
\* labels has exactly one row for the date, with the label written; after a
\* successful PUT of a special-day type other than normal the list of the school's
\* special days has exactly one row for the date, with the type and description
\* written; after a successful PUT of type normal it has no row for the date
C8_ReadAfterWrite ==
    /\ (last.op = "PUT day-labels" /\ last.status = 200) =>
          LET list == GetDayLabels(db, last.args.school)
              rows == OfDate(list, last.args.date.day)
          IN  /\ Cardinality(rows) = 1
              /\ \A i \in rows : list[i].label = last.args.label
    /\ (last.op = "PUT special-days" /\ last.status = 200) =>
          LET list == GetSpecialDays(db, last.args.school)
              rows == OfDate(list, last.args.date.day)
          IN  IF last.args.type = "normal"
              THEN rows = {}
              ELSE /\ Cardinality(rows) = 1
                   /\ \A i \in rows :
                         /\ list[i].type = last.args.type
                         /\ list[i].description =
                               (IF last.args.description = Null THEN ""
                                ELSE last.args.description)

\* C8: PUT special-days with type normal removed the seeded finals day of
\* 2025-06-16 and the list has no row for the date
C8_Witness ==
    /\ last.op = "PUT special-days"
    /\ last.status = 200
    /\ last.args.type = "normal"
    /\ last.out.deleted # {}
    /\ OfDate(GetSpecialDays(db, last.args.school), 16) = {}

\* C9 (SpecUpsert): no row of a day-label table or of day_schedules holds an empty
\* value, and after a successful write of a null or empty label or schedule the
\* table has no row for the date
C9_EmptyValueRemovesRow ==
    /\ rev = 4 =>
          \A school \in Schools :
              \A r \in Rows(db.day_labels[school]) : r.label \notin {"", Null}
    /\ rev \in Revisions =>
          \A r \in Rows(sdb.day_schedules) : r.schedule \notin {"", Null}
    /\ (last.op = "PUT day-labels" /\ last.status = 200
            /\ last.args.label \in {"", Null}) =>
          RowsOfDate(db.day_labels[last.args.school], last.args.date.day) = {}
    /\ (last.op = "POST day-schedules" /\ last.status = 200
            /\ last.args.schedule \in {"", Null} /\ last.args.date # NoDate) =>
          \A r \in Rows(sdb.day_schedules) :
              r.date \notin {last.args.date.day, last.args.date.day + 1}

(***************************************************************************)
(* The transaction claim, checked under SpecEvents.                        *)
(***************************************************************************)
\* a lifeCurriculum entry that asks for a row
Wanted(e) == ~e.isNull /\ (e.links \notin {Null, ""} \/ e.description \notin {Null, ""})

\* the curriculum rows a request asks to store for event id
WantedRows(id, entries) ==
    LET keep == SelectSeq(entries, Wanted)
    IN  [i \in 1..Len(keep) |->
            [event_id |-> id, grade |-> keep[i].grade,
             links |-> IF keep[i].links = "" THEN Null ELSE keep[i].links,
             description |->
                 IF keep[i].description = "" THEN Null ELSE keep[i].description]]

\* the event row a request's body asks for
WantedEvent(id, body) ==
    [id |-> id, title |-> body.title, date |-> body.date.day, time |-> Null,
     department |-> body.department, description |-> body.description]

\* the rows of curriculum table t that belong to other events than id
OthersOf(t, id) == SelectRows(t, {r \in Rows(t) : r.event_id # id})

\* the step committed the whole of the request: the event's row as the body gives
\* it and a curriculum row for every entry that asks for one, the rows of other
\* events and of the other school as they were
Whole ==
    /\ "body" \in DOMAIN last'.args
    /\ LET school == last'.args.school
           body == last'.args.body
       IN  /\ \A other \in Schools \ {school} :
                 /\ db'.events[other] = db.events[other]
                 /\ db'.life_curriculum[other] = db.life_curriculum[other]
           /\ IF last'.op = "POST events"
              THEN \E id \in 1..MaxEventId :
                      /\ \A e \in db.events[school] : e.id # id
                      /\ db'.events[school] =
                             db.events[school] \cup {WantedEvent(id, body)}
                      /\ db'.life_curriculum[school] =
                             db.life_curriculum[school]
                                 \o WantedRows(id, body.lifeCurriculum)
              ELSE LET id == last'.args.id IN
                      /\ \E e \in db.events[school] : e.id = id
                      /\ db'.events[school] =
                             {e \in db.events[school] : e.id # id}
                                 \cup {WantedEvent(id, body)}
                      /\ db'.life_curriculum[school] =
                             OthersOf(db.life_curriculum[school], id)
                                 \o WantedRows(id, body.lifeCurriculum)

\* C10: a POST or PUT of an event either commits the whole of the request or
\* leaves the events and curriculum tables exactly as they were; a success status
\* means the whole was committed, and a request that fails before its COMMIT has
\* completed leaves the tables as they were
C10_AllOrNothing ==
    [][(now' = now /\ last'.op \in {"POST events", "PUT events"}) =>
          LET same == /\ db'.events = db.events
                      /\ db'.life_curriculum = db.life_curriculum
              ok == last'.status \in {200, 201}
              afterCommit == "fail" \in DOMAIN last'.args /\ last'.args.fail = 7
          IN  /\ same \/ Whole
              /\ ok => Whole
              /\ (~ok /\ ~afterCommit) => same
      ]_vars

\* C10: the second curriculum INSERT of a POST failed after the event and its
\* first curriculum row had been inserted: the id is used up, no row is left
C10_Witness ==
    /\ last.op = "POST events"
    /\ last.status = 500
    /\ "fail" \in DOMAIN last.args
    /\ last.args.fail = 5
    /\ Len(SelectSeq(last.args.body.lifeCurriculum, Wanted)) >= 2
    /\ db.events_seq[last.args.school] = 4
    /\ db.events = seedSampleData.events
    /\ db.life_curriculum = seedSampleData.life_curriculum

\* the curriculum rows of event id in the school's table, as a sequence
ChildrenOf(school, id) ==
    SelectRows(db.life_curriculum[school],
               {r \in Rows(db.life_curriculum[school]) : r.event_id = id})

C11_WitnessEmpty ==
    /\ last.op = "POST events"
    /\ last.status = 201
    /\ Len(last.args.body.lifeCurriculum) = 1
    /\ \A o \in last.out : o.life_curriculum = <<>>

\* C12: in every reachable state every curriculum row carries the id of an event
\* of the same school's events table; after a successful DELETE of an event
\* neither the event nor any curriculum row with its id is stored
C12_NoOrphanCurriculum ==
    /\ \A school \in Schools :
          \A r \in Rows(db.life_curriculum[school]) :
              \E e \in db.events[school] : e.id = r.event_id
    /\ (last.op = "DELETE events" /\ last.status = 200) =>
          /\ \A e \in db.events[last.args.school] : e.id # last.args.id
          /\ \A r \in Rows(db.life_curriculum[last.args.school]) :
                r.event_id # last.args.id

\* C12: the seeded event 1 was deleted and its four curriculum rows with it; the
\* eight rows of events 2 and 3 are left
C12_Witness ==
    /\ last.op = "DELETE events"
    /\ last.status = 200
    /\ last.args.id = 1
    /\ Len(seedSampleData.life_curriculum[last.args.school]) = 12
    /\ Len(db.life_curriculum[last.args.school]) = 8

(***************************************************************************)
(* The pool claims.                                                        *)
(***************************************************************************)
\* C13 (SpecSingle): at every moment at most one pool that was created has not
\* been ended
C13_AtMostOneLivePool == livePools <= 1

\* the handlers whose first statement is ensurePoolExists()
AcquireOps ==
    {"POST day-schedules", "POST day-types", "GET events", "POST events",
     "DELETE clear-all"}

\* the connection string the module's pool was made with, or would be made with
Available == IF pool # Null THEN pool ELSE dbEnv

ByIdOps ==
    {"PUT events", "DELETE events", "PUT links", "DELETE links", "DELETE day-labels",
     "PUT materials", "DELETE materials"}

\* the request l names a row that is stored
Matched(l) ==
    IF l.op \in {"PUT events", "DELETE events"}
    THEN \E e \in db.events[l.args.school] : e.id = l.args.id
    ELSE IF l.op \in {"PUT links", "DELETE links"}
    THEN \E r \in db.custom_links : r.id = l.args.id /\ r.school = l.args.school
    ELSE IF l.op = "DELETE day-labels"
    THEN \E r \in Rows(db.day_labels[l.args.school]) : r.date = l.args.date.day
    ELSE \E r \in sdb.materials : r.id = l.args.id

\* the request l passed the gate and the handler's validation, and the store
\* executed the statement that looks for the row
Executed(l) ==
    IF rev = 4
    THEN /\ ("id" \in DOMAIN l.args \/ "date" \in DOMAIN l.args)
         /\ "fail" \in DOMAIN l.args => l.args.fail \notin {1, 2}
         /\ "body" \in DOMAIN l.args => PgDateOk(l.args.body.date)
         /\ "date" \in DOMAIN l.args => PgDateOk(l.args.date)
    ELSE l.out.queried /\ ~l.out.held

\* C15: an update or delete by identifier whose statement the store executes
\* and which matches no row is answered 404 and leaves every table as it was;
\* the event update has sent ROLLBACK as the last statement of its transaction
C15_NoMatchIs404 ==
    [][(now' = now /\ last'.op \in ByIdOps /\ Executed(last') /\ ~Matched(last')) =>
          /\ last'.status = 404
          /\ db' = db
          /\ sdb' = sdb
          /\ last'.op = "PUT events" =>
                /\ last'.out.sent[Len(last'.out.sent)] = "ROLLBACK"
                /\ \A i \in 1..Len(last'.out.sent) : last'.out.sent[i] # "COMMIT"
      ]_vars

\* C15: a link of one school was addressed through the other school: 404, and
\* the link is still stored
C15_Witness ==
    /\ last.op = "DELETE links"
    /\ last.status = 404
    /\ \E r \in db.custom_links : r.id = last.args.id /\ r.school # last.args.school

(***************************************************************************)
(* The claim on repeated initialization, checked under SpecStartup.        *)
(***************************************************************************)
\* C16: initializeDatabase against a store that it has initialized before
\* succeeds and leaves every stored row as it was
C16_InitIsIdempotent ==
    [][last'.op = "initializeDatabase" => (last'.out.started /\ db' = db)]_vars

(***************************************************************************)
(* The claim on pool clients, checked under SpecSingle.                    *)
(***************************************************************************)
\* C17: when a handler of the single-table revisions has answered, the client
\* it checked out of the pool has been released
C17_ClientsReleased ==
    (rev \in Revisions /\ "held" \in DOMAIN last.out) => ~last.out.held

(***************************************************************************)
(* The claim on responses, checked under SpecEvents.  A handler is one     *)
(* step here, so a request is answered eventually exactly when the step    *)
(* that ends its handler records a response.                               *)
(***************************************************************************)
\* C18: every request to the event routes receives its response: no handler
\* ends without having sent one
C18_EveryRequestAnswered ==
    last.op \in {"POST events", "PUT events"} => last.status # NoResponse

(***************************************************************************)
(* The claim on retries, checked under SpecMaterials.                      *)
(***************************************************************************)
\* C19: one request to a materials write route attempts its write once: it
\* sends at most one write statement, calls pool.connect() at most once and
\* adds at most one row
C19_NoAutomaticRetry ==
    [][last'.op \in {"POST materials", "PUT materials"} =>
          /\ Len(last'.out.sent) <= 1
          /\ last'.out.connects <= 1
          /\ Cardinality(sdb'.materials) <= Cardinality(sdb.materials) + 1
      ]_vars

(***************************************************************************)
(* The claim on enumerated values, checked under SpecUpsert.               *)
(***************************************************************************)
\* the values that ask for the row to be cleared or that are missing
NoValue == {Null, ""}

\* the request l carries a schedule, label or day type outside its enumeration
CarriesOutside(l) ==
    \/ /\ l.op = "PUT day-labels"
       /\ "label" \in DOMAIN l.args
       /\ l.args.label \notin {"A", "B"} \cup NoValue
    \/ /\ l.op = "PUT special-days"
       /\ "type" \in DOMAIN l.args
       /\ l.args.type \notin allowedTypes \cup NoValue
    \/ /\ l.op = "POST day-schedules"
       /\ l.args.schedule \notin {"A", "B"} \cup NoValue
    \/ /\ l.op = "POST day-types"
       /\ l.args.type \notin allowedTypes \cup NoValue

\* nothing else is wrong with the request l: its date is a calendar date in
\* the form YYYY-MM-DD and the store can be reached
OtherwiseValid(l) ==
    /\ l.args.date.fmt = "ymd"
    /\ "queryFails" \in DOMAIN l.args => ~l.args.queryFails
    /\ rev # 4 => sdb.tables
    /\ rev # 4 => BeforeQuery(ActivePool, l.args.date, TRUE) = 0

\* C20: a write that carries a value outside its field's enumeration is
\* answered 400 and changes no stored row
C20_OutsideEnumerationRefused ==
    [][(CarriesOutside(last') /\ OtherwiseValid(last')) =>
          (last'.status = 400 /\ db' = db /\ sdb' = sdb)]_vars

(***************************************************************************)
(* The claim on unparseable dates, checked under SpecSingle.               *)
(***************************************************************************)
\* C21: a day-schedule or day-type write whose date does not parse, sent to a
\* server whose pool reaches an initialized store, is answered 400 and stores
\* nothing
C21_UnparseableDateIs400 ==
    [][(/\ last'.op \in {"POST day-schedules", "POST day-types"}
        /\ last'.args.date = BadDate
        /\ pool = GoodUrl
        /\ ~poolEnded
        /\ sdb.tables) =>
          (last'.status = 400 /\ sdb' = sdb)]_vars

(***************************************************************************)
(* The claim on the order of the embedded curriculum list, checked under   *)
(* SpecEvents.                                                             *)
(***************************************************************************)
\* C22: the life_curriculum list that the join embeds in an event is in
\* ascending order of grade
C22_CurriculumByGrade ==
    \A school \in Schools : \A e \in db.events[school] :
        LET list == CurriculumOf(db, school, e.id)
        IN  \A i, j \in 1..Len(list) : i < j => list[i].grade <= list[j].grade

C24_ErrorMeansUnchanged ==
    [][(last'.op \in {"POST events", "PUT events"} /\ last'.status \notin 200..299) =>
          (db'.events = db.events /\ db'.life_curriculum = db.life_curriculum)]_vars

(***************************************************************************)
(* The claim on the independence of sessions, checked under Spec.          *)
(***************************************************************************)
\* token u has a row in table rows that has not expired
Unexpired(u, rows) == \E r \in rows : r.session_id = u /\ r.expires_at > now

\* C25: a login that answers 200 adds one row and every token that had an
\* unexpired row still has it; a logout that answers 200 removes no row of
\* another token
C25_SessionsIndependent ==
    [][/\ (last'.op = "login" /\ last'.status = 200 /\ sidCount' # sidCount) =>
             /\ Cardinality(db'.admin_sessions \ db.admin_sessions) = 1
             /\ \A u \in Tokens : Unexpired(u, db.admin_sessions) =>
                                     Unexpired(u, db'.admin_sessions)
       /\ (last'.op = "logout" /\ last'.status = 200 /\ now' = now) =>
             /\ \A r \in db.admin_sessions :
                   r.session_id # last'.args.tok => r \in db'.admin_sessions
             /\ db'.admin_sessions \subseteq db.admin_sessions
      ]_vars

\* C25: a session was logged out while another token had an unexpired row,
\* which is still there
C25_Witness ==
    /\ last.op = "logout"
    /\ last.status = 200
    /\ last.args.tok \in revoked
    /\ \E u \in DOMAIN issuedAt : u # last.args.tok /\ Unexpired(u, db.admin_sessions)

(***************************************************************************)
(* The claim on a failing session lookup, checked under Spec.              *)
(***************************************************************************)
\* C26: when the lookup of the session throws, the gate answers 500 and no
\* stored row changes; the wrapped handler answers only requests whose lookup
\* has found an unexpired row
C26_GateFailsClosed ==
    [][GatedStep =>
          /\ (GateDenied(last') /\ last'.args.lookupFails) =>
                (last'.status = 500 /\ db' = db /\ sdb' = sdb)
          /\ ~GateDenied(last') =>
                \E r \in db.admin_sessions :
                    r.session_id = last'.args.tok /\ r.expires_at > now
      ]_vars

\* C26: the lookup threw for a token whose session is unexpired, and the
\* request was answered 500
C26_Witness ==
    /\ last.op = "PUT day-labels"
    /\ GateDenied(last)
    /\ last.args.lookupFails
    /\ last.status = 500
    /\ Live(last.args.tok)

(***************************************************************************)
(* The claim on the separation of the schools, checked under SpecSchools.  *)
(***************************************************************************)
SchoolOps ==
    {"PUT day-labels", "DELETE day-labels", "PUT special-days", "PUT settings",
     "PUT banner", "POST links", "PUT links", "DELETE links", "DELETE events"}

\* everything store d holds for school o
SchoolData(d, o) ==
    [events |-> d.events[o],
     life_curriculum |-> d.life_curriculum[o],
     day_labels |-> d.day_labels[o],
     special_days |-> d.special_days[o],
     settings |-> {r \in Rows(d.school_settings) : r.school = o},
     banner |-> {r \in Rows(d.school_banners) : r.school = o},
     links |-> {r \in d.custom_links : r.school = o}]

C29_FailedInitKeepsPool ==
    [][(last'.op = "init" /\ last'.status = 500 /\ Connects(pool) /\ ~poolEnded) =>
          pool' = pool]_vars

(***************************************************************************)
(* The claim on concurrent home button updates, checked under SpecButtons. *)
(***************************************************************************)
\* C30: every PUT home buttons request with a valid session, a valid school
\* and a title is answered 200, and home_buttons then holds exactly one row
\* for its school
C30_ConcurrentPutsSucceed ==
    \A i \in 1..MaxRequests :
        (inflight[i].pc = "done" /\ inflight[i].passed /\ inflight[i].title # Null) =>
            /\ inflight[i].status = 200
            /\ Cardinality({b \in db.home_buttons : b.school = inflight[i].school}) = 1

====
